---- MODULE Spec2Model ----
(***************************************************************************)
(* State-machine model of the wrong-opinions week-selection service:       *)
(* the week aggregate handlers (api/weeks.py), the cache-or-fetch detail   *)
(* handlers (api/movies.py, api/albums.py) and the request-scoped          *)
(* storage session (database.py).                                          *)
(*                                                                         *)
(* Storage model.  The configured engine is sqlite+aiosqlite               *)
(* (config.py:24) and every inbound request owns one session / connection  *)
(* (database.py:38).  SELECTs read the committed tables plus the request's *)
(* own flushed rows; the first flushed INSERT/UPDATE/DELETE takes the      *)
(* single SQLite write lock, which is held until the request commits or    *)
(* rolls back, so another request's flush waits for it.  Uniqueness        *)
(* constraints are those of the migrations; foreign keys are declared but  *)
(* SQLite does not enforce them unless PRAGMA foreign_keys is set, which   *)
(* database.py never does.  Row ids are SQLite rowids: max(id) + 1.        *)
(*                                                                         *)
(* Every await in a handler is a scheduling point: one action per          *)
(* statement group between two awaits.                                     *)
(***************************************************************************)
EXTENDS Integers, Sequences, FiniteSets, TLC

\* ------------------------------------------------------------------ bounds
MaxRequests == 3       \* requests issued in one behaviour
MaxClock == 1          \* the wall clock runs 0..MaxClock
Second == 2            \* ticks of the event-loop clock in one second
MaxLoopTime == 5       \* the event-loop clock runs 0..MaxLoopTime ticks
MaxCalls == 2          \* upstream requests awaited on one client

Slots == {1, 2}                 \* requests in flight at once
Users == {1, 2}                 \* registered, active accounts (ids)
YearWeeks == {<<2025, 52>>, <<2026, 1>>}   \* (year, week_number) pairs
WeekIds == {1, 2}               \* week ids a client may address
TmdbIds == {550}                \* film natural keys
MbIds == {77}                   \* release natural keys (stand-ins for UUIDs)
Positions == {1, 2}             \* the positions the request schema accepts
PathPositions == {1, 2, 3}      \* positions a DELETE path may carry
NotesIn == {0, 1}               \* 0 is "notes absent / null"

VARIABLES db, req, writer, now, issued, hist, rec, release, film, net

vars == <<db, req, writer, now, issued, hist, rec, release, film, net>>

\* --------------------------------------------------------------- helpers
Max(S) == CHOOSE x \in S : \A y \in S : y <= x

\* SQLite rowid allocation for an INTEGER PRIMARY KEY column.
NextId(rows) == IF rows = {} THEN 1 ELSE Max({r.id : r \in rows}) + 1

\* datetime.isocalendar() of the clock: the ISO week rolls over from
\* (2025, 52) to (2026, 1) at the last tick.
IsoYearWeek(t) == IF t < MaxClock THEN <<2025, 52>> ELSE <<2026, 1>>

Username(u) == 100 + u

NoWeek == [id |-> 0, user_id |-> 0, year |-> 0, week_number |-> 0,
           notes |-> 0, created_at |-> 0, updated_at |-> 0]

EmptyTables == [weeks |-> {}, week_movies |-> {}, week_albums |-> {},
                movies |-> {}, albums |-> {},
                people |-> {}, movie_cast |-> {}, movie_crew |-> {},
                artists |-> {}, album_artists |-> {}, users |-> {}]

\* An upstream credits body: TMDB's cast and crew lists, or a MusicBrainz
\* release's artist-credit list.
EmptyBody == [cast |-> <<>>, crew |-> <<>>, artists |-> <<>>]

EmptyResp == [owner |-> 0, movies |-> {}, albums |-> {}, cached |-> -1,
              cast |-> <<>>, crew |-> <<>>, artists |-> <<>>,
              artist |-> "", release_date |-> <<>>]

Idle == [op |-> "none", user |-> 0, wid |-> 0, year |-> 0, wk |-> 0,
         notes |-> 0, key |-> 0, pos |-> 0, limit |-> 0,
         pc |-> "idle", status |-> 0, week |-> NoWeek, ent |-> 0,
         artist |-> "", date |-> [y |-> 0, m |-> 0, d |-> 0],
         body |-> EmptyBody, got |-> EmptyBody,
         phase |-> "", idx |-> 0,
         stamp |-> 0, setNotes |-> FALSE, setUpdated |-> FALSE,
         add |-> EmptyTables, ins |-> EmptyTables, del |-> EmptyTables,
         calls |-> 0, up |-> -1, exc |-> "", ret |-> 0, committed |-> FALSE,
         username |-> <<>>, email |-> <<>>,
         resp |-> EmptyResp, pre |-> EmptyTables]

\* What request s reads: the committed tables plus its own flushed rows.
View(s, t) == db[t] \cup req[s].ins[t]

InFlight(s) == req[s].pc \notin {"idle", "done"}

CanWrite(s) == writer \in {0, s}

\* A request template: the operation, the authenticated user and the arguments.
Call(op, user, wid, year, wk, notes, key, pos, limit) ==
    [op |-> op, user |-> user, wid |-> wid, year |-> year, wk |-> wk,
     notes |-> notes, key |-> key, pos |-> pos, limit |-> limit]

LogEntry(r, code) ==
    [op |-> r.op, user |-> r.user, wid |-> r.wid, year |-> r.year, wk |-> r.wk,
     notes |-> r.notes, key |-> r.key, pos |-> r.pos, limit |-> r.limit,
     status |-> code, calls |-> r.calls, up |-> r.up, exc |-> r.exc,
     resp |-> r.resp]

\* ------------------------------------------------- request-scoped session
\* get_db: the handler raised, so the session is rolled back and the error
\* is the response.  Flushed and pending rows are discarded, the write lock
\* (if held) is released.
Rollback(s, r, code) ==
    /\ req' = [req EXCEPT ![s] =
                 [r EXCEPT !.pc = "done", !.status = code,
                           !.add = EmptyTables, !.ins = EmptyTables,
                           !.del = EmptyTables,
                           !.setNotes = FALSE, !.setUpdated = FALSE]]
    /\ writer' = IF writer = s THEN 0 ELSE writer
    /\ hist' = IF rec THEN Append(hist, LogEntry(r, code)) ELSE hist
    /\ UNCHANGED <<db, now, issued, rec, release, film, net>>

\* A failure that leaves the rows flushed so far in storage.
RaiseKeepingFlushed(s, r, exc) ==
    /\ req' = [req EXCEPT ![s] =
                 [r EXCEPT !.pc = "done", !.status = 500, !.exc = exc,
                           !.add = EmptyTables, !.ins = EmptyTables,
                           !.del = EmptyTables,
                           !.setNotes = FALSE, !.setUpdated = FALSE]]
    /\ writer' = IF writer = s THEN 0 ELSE writer
    /\ hist' = IF rec THEN Append(hist, LogEntry([r EXCEPT !.exc = exc], 500))
               ELSE hist
    /\ db' = [t \in DOMAIN EmptyTables |-> db[t] \cup r.ins[t]]
    /\ UNCHANGED <<now, issued, rec, release, film, net>>

\* A storage exception no except clause of the handler matches: it leaves
\* the handler, get_db rolls back and the client gets a 500.
Raise(s, r, exc) == Rollback(s, [r EXCEPT !.exc = exc], 500)

\* The handler moves on to its next await without touching storage.
Goto(s, r, pc) ==
    /\ req' = [req EXCEPT ![s] = [r EXCEPT !.pc = pc]]
    /\ UNCHANGED <<db, writer, now, issued, hist, rec, release, film, net>>

\* session.flush() of rows that passed their constraints: the statement runs
\* on the request's connection and takes (or keeps) the write lock.
Flushed(s, r, pc) ==
    /\ req' = [req EXCEPT ![s] = [r EXCEPT !.pc = pc]]
    /\ writer' = s
    /\ UNCHANGED <<db, now, issued, hist, rec, release, film, net>>

\* The handler returned `code`; get_db commits next.
Return(s, r, code) == Goto(s, [r EXCEPT !.ret = code], "commit")

\* --------------------------------------------------- storage constraints
\* uq_year_week: UniqueConstraint("year", "week_number") of the migrations
\* (a1b2c3d4e5f6:111, kept by b2c3d4e5f6g7:34).
DupYearWeek(rows, year, wk) ==
    \E x \in rows : x.year = year /\ x.week_number = wk

\* uq_week_movie_position / uq_week_album_position.
DupSlot(rows, wid, pos) ==
    \E x \in rows : x.week_id = wid /\ x.position = pos

\* unique index on movies.tmdb_id / albums.musicbrainz_id.
DupTmdb(rows, key) == \E x \in rows : x.tmdb_id = key
DupMbid(rows, key) == \E x \in rows : x.musicbrainz_id = key

\* ck_movie_position_valid / ck_album_position_valid.
PositionValid(pos) == pos \in {1, 2}

\* The uniqueness constraint a pending row would break, if any: the unique
\* indexes on movies.tmdb_id, albums.musicbrainz_id, people.tmdb_id and
\* artists.musicbrainz_id.
PendingError(r) ==
    IF \E m \in r.add.movies : DupTmdb(db.movies \cup r.ins.movies, m.tmdb_id)
    THEN "IntegrityError(movies)"
    ELSE IF \E a \in r.add.albums :
               DupMbid(db.albums \cup r.ins.albums, a.musicbrainz_id)
    THEN "IntegrityError(albums)"
    ELSE IF \E x \in r.add.people :
               DupTmdb(db.people \cup r.ins.people, x.tmdb_id)
    THEN "IntegrityError(people)"
    ELSE IF \E x \in r.add.artists :
               DupMbid(db.artists \cup r.ins.artists, x.musicbrainz_id)
    THEN "IntegrityError(artists)"
    ELSE ""

\* The pending rows of table t as the flush INSERTs them.  A session never
\* holds more than one pending row at a flush: every handler flushes, or runs
\* an autoflushing query, between two db.add calls.
Inserted(r, t) ==
    {[x EXCEPT !.id = NextId(db[t] \cup r.ins[t])] : x \in r.add[t]}

\* The session after a flush that broke no constraint.
AfterFlush(r) ==
    [r EXCEPT !.ins = [t \in DOMAIN EmptyTables |-> r.ins[t] \cup Inserted(r, t)],
              !.add = EmptyTables]

\* ------------------------------------------------------ shared fragments
\* select(Week).where(Week.id == week_id): the row, or NoWeek.
SelectWeek(s, wid) ==
    LET found == {w \in View(s, "weeks") : w.id = wid}
    IN IF found = {} THEN NoWeek ELSE CHOOSE w \in found : TRUE

\* The owner's username as week_to_response / the 409 detail show it:
\* week.user.username, or 0 for "unknown" / no owner.
OwnerName(w) == IF w.user_id \in Users THEN Username(w.user_id) ELSE 0

\* selectinload(Week.week_movies), selectinload(Week.week_albums).
Selections(s, wid) ==
    [owner |-> OwnerName(SelectWeek(s, wid)),
     movies |-> {[position |-> x.position, ent |-> x.movie_id] :
                     x \in {y \in View(s, "week_movies") : y.week_id = wid}},
     albums |-> {[position |-> x.position, ent |-> x.album_id] :
                     x \in {y \in View(s, "week_albums") : y.week_id = wid}},
     cached |-> -1]

\* --------------------------------------------------------- create_week
\* Variant of CreateWeekSelect whose 409 names the requester instead of the
\* existing week's owner.
CreateWeekSelectNamesRequester(s) ==
    /\ req[s].op = "create_week" /\ req[s].pc = "select"
    /\ LET r == req[s]
           found == {w \in View(s, "weeks") :
                        w.year = r.year /\ w.week_number = r.wk}
       IN IF found # {}
          THEN Rollback(s, [r EXCEPT !.resp.owner = Username(r.user)], 409)
          ELSE Goto(s, [r EXCEPT !.stamp = now], "flush")

\* weeks.py:175-203: the existence check, then the row is built and flushed.
CreateWeekSelect(s) ==
    /\ req[s].op = "create_week" /\ req[s].pc = "select"
    /\ LET r == req[s]
           found == {w \in View(s, "weeks") :
                        w.year = r.year /\ w.week_number = r.wk}
       IN IF found # {}
          THEN LET w == CHOOSE w \in found : TRUE
               IN Rollback(s, [r EXCEPT !.resp.owner = OwnerName(w)], 409)
          ELSE Goto(s, [r EXCEPT !.stamp = now], "flush")

\* Variant of CreateWeekFlush under the constraint the ORM class declares
\* (week.py:24: user_id, year, week_number) instead of the migrations' one.
CreateWeekFlushPerUser(s) ==
    /\ req[s].op = "create_week" /\ req[s].pc = "flush"
    /\ CanWrite(s)
    /\ LET r == req[s]
           rows == View(s, "weeks")
           w == [id |-> NextId(rows), user_id |-> r.user, year |-> r.year,
                 week_number |-> r.wk, notes |-> r.notes,
                 created_at |-> r.stamp, updated_at |-> r.stamp]
       IN IF DupYearWeek({x \in rows : x.user_id = r.user}, r.year, r.wk)
          THEN Raise(s, r, "IntegrityError(weeks)")
          ELSE Flushed(s, [r EXCEPT !.ins.weeks = @ \cup {w}, !.week = w,
                                    !.resp.owner = Username(r.user),
                                    !.ret = 201], "commit")

\* weeks.py:204-211: flush (INSERT INTO weeks), refresh, respond 201.
CreateWeekFlush(s) ==
    /\ req[s].op = "create_week" /\ req[s].pc = "flush"
    /\ CanWrite(s)
    /\ LET r == req[s]
           rows == View(s, "weeks")
           w == [id |-> NextId(rows), user_id |-> r.user, year |-> r.year,
                 week_number |-> r.wk, notes |-> r.notes,
                 created_at |-> r.stamp, updated_at |-> r.stamp]
       IN IF DupYearWeek(rows, r.year, r.wk)
          THEN Raise(s, r, "IntegrityError(weeks)")
          ELSE Flushed(s, [r EXCEPT !.ins.weeks = @ \cup {w}, !.week = w,
                                    !.resp.owner = Username(r.user),
                                    !.ret = 201], "commit")

\* ---------------------------------------------------- get_current_week
\* weeks.py:232-246: look the current ISO week up.
CurrentWeekSelect(s) ==
    /\ req[s].op = "current_week" /\ req[s].pc = "select"
    /\ LET r == req[s]
           found == {w \in View(s, "weeks") :
                        w.year = r.year /\ w.week_number = r.wk}
       IN IF found # {}
          THEN Goto(s, [r EXCEPT !.week = CHOOSE w \in found : TRUE], "load")
          ELSE Goto(s, r, "flush")

\* weeks.py:239-243, 267: the eager loads of an existing week, respond 200.
CurrentWeekLoad(s) ==
    /\ req[s].op = "current_week" /\ req[s].pc = "load"
    /\ LET r == req[s]
       IN Return(s, [r EXCEPT !.resp = [Selections(s, r.week.id) EXCEPT
                                           !.owner = OwnerName(r.week)]], 200)

\* Variant of CurrentWeekFlush that inserts the week without an owner.
CurrentWeekFlushUnowned(s) ==
    /\ req[s].op = "current_week" /\ req[s].pc = "flush"
    /\ CanWrite(s)
    /\ LET r == req[s]
           rows == View(s, "weeks")
           w == [id |-> NextId(rows), user_id |-> 0, year |-> r.year,
                 week_number |-> r.wk, notes |-> 0,
                 created_at |-> r.stamp, updated_at |-> r.stamp]
       IN IF DupYearWeek(rows, r.year, r.wk)
          THEN Raise(s, r, "IntegrityError(weeks)")
          ELSE Flushed(s, [r EXCEPT !.ins.weeks = @ \cup {w}, !.week = w,
                                    !.resp.owner = Username(r.user),
                                    !.ret = 200], "commit")

\* weeks.py:248-267: no such week, so insert it with the caller as owner.
CurrentWeekFlush(s) ==
    /\ req[s].op = "current_week" /\ req[s].pc = "flush"
    /\ CanWrite(s)
    /\ LET r == req[s]
           rows == View(s, "weeks")
           w == [id |-> NextId(rows), user_id |-> r.user, year |-> r.year,
                 week_number |-> r.wk, notes |-> 0,
                 created_at |-> r.stamp, updated_at |-> r.stamp]
       IN IF DupYearWeek(rows, r.year, r.wk)
          THEN Raise(s, r, "IntegrityError(weeks)")
          ELSE Flushed(s, [r EXCEPT !.ins.weeks = @ \cup {w}, !.week = w,
                                    !.resp.owner = Username(r.user),
                                    !.ret = 200], "commit")

\* ------------------------------------------------------------- get_week
\* weeks.py:282-295.
GetWeekSelect(s) ==
    /\ req[s].op = "get_week" /\ req[s].pc = "select"
    /\ LET r == req[s]
           w == SelectWeek(s, r.wid)
       IN IF w = NoWeek THEN Rollback(s, r, 404)
          ELSE Goto(s, [r EXCEPT !.week = w], "load")

\* weeks.py:285-289, 297.
GetWeekLoad(s) ==
    /\ req[s].op = "get_week" /\ req[s].pc = "load"
    /\ LET r == req[s]
       IN Return(s, [r EXCEPT !.resp = [Selections(s, r.week.id) EXCEPT
                                           !.owner = OwnerName(r.week)]], 200)

\* ---------------------------------------------------------- update_week
\* An update that assigns notes and updated_at whatever the body carries.
UpdateWeekSelectAlways(s) ==
    /\ req[s].op = "update_week" /\ req[s].pc = "select"
    /\ LET r == req[s]
           w == SelectWeek(s, r.wid)
       IN IF w = NoWeek THEN Rollback(s, r, 404)
          ELSE IF w.user_id # r.user THEN Rollback(s, r, 403)
          ELSE Goto(s, [r EXCEPT !.week = [w EXCEPT !.notes = r.notes,
                                                    !.updated_at = now],
                                 !.setNotes = TRUE, !.setUpdated = TRUE],
                    "flush")

\* weeks.py:313-326: existence, ownership, then the in-memory change.
UpdateWeekSelect(s) ==
    /\ req[s].op = "update_week" /\ req[s].pc = "select"
    /\ LET r == req[s]
           w == SelectWeek(s, r.wid)
       IN IF w = NoWeek THEN Rollback(s, r, 404)
          ELSE IF w.user_id # r.user THEN Rollback(s, r, 403)
          ELSE IF r.notes # 0
               THEN Goto(s, [r EXCEPT !.week = [w EXCEPT !.notes = r.notes,
                                                         !.updated_at = now],
                                      !.setNotes = TRUE, !.setUpdated = TRUE],
                         "flush")
               ELSE Goto(s, [r EXCEPT !.week = w], "flush")

\* weeks.py:328: flush.  A dirty week is an UPDATE ... WHERE id = ?, which
\* the ORM checks for exactly one matched row (StaleDataError otherwise).
UpdateWeekFlush(s) ==
    /\ req[s].op = "update_week" /\ req[s].pc = "flush"
    /\ LET r == req[s]
       IN IF ~r.setUpdated THEN Goto(s, r, "refresh")
          ELSE /\ CanWrite(s)
               /\ IF SelectWeek(s, r.week.id) = NoWeek
                  THEN Raise(s, r, "StaleDataError")
                  ELSE Flushed(s, r, "refresh")

\* weeks.py:329-331: refresh re-reads the row by primary key; a row that is
\* gone makes refresh raise.
UpdateWeekRefresh(s) ==
    /\ req[s].op = "update_week" /\ req[s].pc = "refresh"
    /\ LET r == req[s]
           w == SelectWeek(s, r.week.id)
           seen == IF r.setUpdated
                   THEN [w EXCEPT !.notes = r.week.notes,
                                  !.updated_at = r.week.updated_at]
                   ELSE w
       IN IF w = NoWeek THEN Raise(s, r, "InvalidRequestError")
          ELSE Return(s, [r EXCEPT !.week = seen,
                                   !.resp.owner = OwnerName(seen)], 200)

\* ---------------------------------------------------------- delete_week
\* weeks.py:346-354.
DeleteWeekSelect(s) ==
    /\ req[s].op = "delete_week" /\ req[s].pc = "select"
    /\ LET r == req[s]
           w == SelectWeek(s, r.wid)
       IN IF w = NoWeek THEN Rollback(s, r, 404)
          ELSE IF w.user_id # r.user THEN Rollback(s, r, 403)
          ELSE Goto(s, [r EXCEPT !.week = w], "cascade_movies")

\* weeks.py:356 with week.py:35-37: session.delete loads week_movies to
\* cascade the delete to them.
DeleteWeekCascadeMovies(s) ==
    /\ req[s].op = "delete_week" /\ req[s].pc = "cascade_movies"
    /\ LET r == req[s]
       IN Goto(s, [r EXCEPT !.del.week_movies =
                       {x \in View(s, "week_movies") : x.week_id = r.week.id}],
               "cascade_albums")

\* Variant of DeleteWeekCascadeAlbums whose cascade goes on from the slot
\* rows to the cached films and releases they point at.
DeleteWeekCascadeToCache(s) ==
    /\ req[s].op = "delete_week" /\ req[s].pc = "cascade_albums"
    /\ LET r == req[s]
           slots == {x \in View(s, "week_albums") : x.week_id = r.week.id}
       IN Return(s, [r EXCEPT !.del.week_albums = slots,
                              !.del.albums =
                                 {a \in View(s, "albums") :
                                     \E x \in slots : x.album_id = a.id},
                              !.del.movies =
                                 {m \in View(s, "movies") :
                                     \E x \in r.del.week_movies :
                                        x.movie_id = m.id},
                              !.del.weeks = {r.week}], 204)

\* weeks.py:356 with week.py:38-40: the same for week_albums; the handler
\* returns 204 and the DELETEs are left to the commit.
DeleteWeekCascadeAlbums(s) ==
    /\ req[s].op = "delete_week" /\ req[s].pc = "cascade_albums"
    /\ LET r == req[s]
       IN Return(s, [r EXCEPT !.del.week_albums =
                         {x \in View(s, "week_albums") : x.week_id = r.week.id},
                              !.del.weeks = {r.week}], 204)

\* ------------------------------------------------------ text and dates
\* A text value is a sequence of one-character strings; Null is Python's
\* None, which is not a text (its one element is not a character).
Null == <<"null">>

Txt(q) == q # Null

DigitChars == <<"0", "1", "2", "3", "4", "5", "6", "7", "8", "9">>

IsDigit(c) == \E i \in 1..10 : DigitChars[i] = c

DigitVal(c) == (CHOOSE i \in 1..10 : DigitChars[i] = c) - 1

\* The character at position i, or the terminator past the end.
At(q, i) == IF i \in 1..Len(q) THEN q[i] ELSE ""

RECURSIVE Decimal(_)
Decimal(q) ==
    IF q = <<>> THEN 0
    ELSE 10 * Decimal(SubSeq(q, 1, Len(q) - 1)) + DigitVal(q[Len(q)])

\* A calendar date, or NoDate for Python's None.
NoDate == [y |-> 0, m |-> 0, d |-> 0]

IsLeap(y) == y % 4 = 0 /\ (y % 100 # 0 \/ y % 400 = 0)

DaysInMonth(y, m) ==
    IF m = 2 THEN (IF IsLeap(y) THEN 29 ELSE 28)
    ELSE IF m \in {4, 6, 9, 11} THEN 30 ELSE 31

\* datetime.date(y, m, d): the date, or ValueError, which every caller here
\* turns into None (albums.py:50-51, weeks.py:570-571).
NewDate(y, m, d) ==
    IF y \in 1..9999 /\ m \in 1..12 /\ d \in 1..DaysInMonth(y, m)
    THEN [y |-> y, m |-> m, d |-> d]
    ELSE NoDate

\* Proleptic Gregorian ordinals, as date.fromisoformat computes ISO weeks.
DaysBeforeYear(y) ==
    (y - 1) * 365 + (y - 1) \div 4 - (y - 1) \div 100 + (y - 1) \div 400

RECURSIVE DaysBeforeMonth(_, _)
DaysBeforeMonth(y, m) ==
    IF m = 1 THEN 0 ELSE DaysBeforeMonth(y, m - 1) + DaysInMonth(y, m - 1)

YmdToOrd(y, m, d) == DaysBeforeYear(y) + DaysBeforeMonth(y, m) + d

\* Monday is 0.
Weekday(y, m, d) == (YmdToOrd(y, m, d) + 6) % 7

IsoWeek1Monday(y) ==
    LET first == YmdToOrd(y, 1, 1)
        wd == (first + 6) % 7
    IN IF wd > 3 THEN first - wd + 7 ELSE first - wd

\* The date with ordinal n; it lies within a year of `near`.
OrdToYmd(n, near) ==
    LET hit == {dt \in [y : (near - 1)..(near + 1), m : 1..12, d : 1..31] :
                   /\ dt.d <= DaysInMonth(dt.y, dt.m)
                   /\ YmdToOrd(dt.y, dt.m, dt.d) = n}
    IN IF hit = {} THEN NoDate
       ELSE LET dt == CHOOSE dt \in hit : TRUE IN NewDate(dt.y, dt.m, dt.d)

\* ISO year, week, day to a date; weeks 1..52, and 53 in long years.
IsoToYmd(y, w, d) ==
    LET long == \/ Weekday(y, 1, 1) = 3
                \/ Weekday(y, 1, 1) = 2 /\ IsLeap(y)
    IN IF y \notin 1..9999 THEN NoDate
       ELSE IF w <= 0 \/ w > 53 \/ (w = 53 /\ ~long) THEN NoDate
       ELSE IF d <= 0 \/ d >= 8 THEN NoDate
       ELSE OrdToYmd(IsoWeek1Monday(y) + (w - 1) * 7 + d - 1, y)

\* n digits at position pos.
HasDigits(q, pos, n) == \A i \in pos..(pos + n - 1) : IsDigit(At(q, i))

DigitsAt(q, pos, n) == Decimal(SubSeq(q, pos, pos + n - 1))

\* date.fromisoformat of the interpreter the code needs (datetime.UTC makes
\* that 3.11 or later): a text of 7, 8 or 10 characters is read as
\* YYYY[-]MM[-]DD or YYYY[-]Www[[-]D]; what follows the last field read is
\* not looked at.  ValueError is None here.
FromIsoFormat(q) ==
    IF Len(q) \notin {7, 8, 10} \/ ~HasDigits(q, 1, 4) THEN NoDate
    ELSE LET year == DigitsAt(q, 1, 4)
             sep == At(q, 5) = "-"
             pos == IF sep THEN 6 ELSE 5
             after == IF At(q, pos) = "W" THEN pos + 3 ELSE pos + 2
             last == IF sep THEN after + 1 ELSE after
         IN IF At(q, pos) = "W"
            THEN IF ~HasDigits(q, pos + 1, 2) THEN NoDate
                 ELSE IF At(q, after) = ""
                 THEN IsoToYmd(year, DigitsAt(q, pos + 1, 2), 1)
                 ELSE IF (sep /\ At(q, after) # "-") \/ ~HasDigits(q, last, 1)
                 THEN NoDate
                 ELSE IsoToYmd(year, DigitsAt(q, pos + 1, 2), DigitsAt(q, last, 1))
            ELSE IF ~HasDigits(q, pos, 2) THEN NoDate
                 ELSE IF (sep /\ At(q, after) # "-") \/ ~HasDigits(q, last, 2)
                 THEN NoDate
                 ELSE NewDate(year, DigitsAt(q, pos, 2), DigitsAt(q, last, 2))

\* albums.py:31-52.
_parse_musicbrainz_date(q) ==
    IF ~Txt(q) \/ q = <<>> THEN NoDate
    ELSE IF Len(q) = 10 THEN FromIsoFormat(q)
    ELSE IF Len(q) = 7 THEN FromIsoFormat(q \o <<"-", "0", "1">>)
    ELSE IF Len(q) = 4 THEN FromIsoFormat(q \o <<"-", "0", "1", "-", "0", "1">>)
    ELSE NoDate

\* Python's int(text): blanks around, an optional sign, digits with single
\* underscores between them.
RECURSIVE Strip(_)
Strip(q) ==
    IF q # <<>> /\ q[1] = " " THEN Strip(Tail(q))
    ELSE IF q # <<>> /\ q[Len(q)] = " " THEN Strip(SubSeq(q, 1, Len(q) - 1))
    ELSE q

Unsigned(q) ==
    LET t == Strip(q)
    IN IF t # <<>> /\ t[1] \in {"+", "-"} THEN Tail(t) ELSE t

IsInt(q) ==
    LET u == Unsigned(q)
    IN /\ u # <<>>
       /\ IsDigit(u[1]) /\ IsDigit(u[Len(u)])
       /\ \A i \in 1..Len(u) : IsDigit(u[i]) \/ u[i] = "_"
       /\ \A i \in 1..(Len(u) - 1) : ~(u[i] = "_" /\ u[i + 1] = "_")

IntOf(q) ==
    LET n == Decimal(SelectSeq(Unsigned(q), IsDigit))
    IN IF At(Strip(q), 1) = "-" THEN 0 - n ELSE n

\* text.split("-").
RECURSIVE Split(_)
Split(q) ==
    IF \A i \in 1..Len(q) : q[i] # "-" THEN <<q>>
    ELSE LET i == CHOOSE i \in 1..Len(q) :
                     q[i] = "-" /\ \A j \in 1..(i - 1) : q[j] # "-"
         IN <<SubSeq(q, 1, i - 1)>> \o Split(SubSeq(q, i + 1, Len(q)))

\* weeks.py:550-571: add_album_to_week parses the date itself, with int()
\* and split("-"); ValueError and IndexError leave it None.
AddAlbumReleaseDate(q) ==
    LET parts == Split(q)
    IN IF ~Txt(q) \/ q = <<>> THEN NoDate
       ELSE IF Len(q) = 4
       THEN IF IsInt(q) THEN NewDate(IntOf(q), 1, 1) ELSE NoDate
       ELSE IF Len(q) = 7
       THEN IF IsInt(parts[1]) /\ Len(parts) >= 2 /\ IsInt(parts[2])
            THEN NewDate(IntOf(parts[1]), IntOf(parts[2]), 1) ELSE NoDate
       ELSE IF Len(q) = 10
       THEN IF /\ IsInt(parts[1]) /\ Len(parts) >= 2 /\ IsInt(parts[2])
               /\ Len(parts) >= 3 /\ IsInt(parts[3])
            THEN NewDate(IntOf(parts[1]), IntOf(parts[2]), IntOf(parts[3]))
            ELSE NoDate
       ELSE NoDate

\* date.isoformat(): YYYY-MM-DD, zero padded.
Padded(n, w) ==
    [i \in 1..w |-> DigitChars[((n \div (10 ^ (w - i))) % 10) + 1]]

IsoFormat(dt) ==
    IF dt = NoDate THEN Null
    ELSE Padded(dt.y, 4) \o <<"-">> \o Padded(dt.m, 2) \o <<"-">> \o Padded(dt.d, 2)

\* --------------------------------------------------------- artist names
\* Python's None where a display name is expected.
None == "<None>"

\* A String column cannot hold a list: the value add_album_to_week builds
\* from a non-empty artist credit (weeks.py:547-548).
ListValue == "<list>"

\* MusicBrainzReleaseDetails.artist_name (external.py:193-204): the credited
\* names, each followed by its join phrase if it has one.
RECURSIVE Joined(_)
Joined(credits) ==
    IF credits = <<>> THEN ""
    ELSE credits[1].name \o
         (IF credits[1].joinphrase \in {None, ""} THEN ""
          ELSE credits[1].joinphrase) \o
         Joined(Tail(credits))

artist_name(credits) ==
    IF credits = <<>> \/ Joined(credits) = "" THEN None ELSE Joined(credits)

\* `release.artist_name or "Unknown Artist"` (albums.py:197, 279).
OrUnknown(name) == IF name \in {None, ""} THEN "Unknown Artist" ELSE name

\* ------------------------------------------------------ upstream clients
\* What one upstream detail call can come back with: 200 with a body, or the
\* client's error taxonomy (base.py:129-161): NotFoundError (404),
\* RateLimitError (429), APIError with a status (503) or without one (0:
\* timeout, transport error).
UpstreamStatus == {200, 404, 429, 503, 0}

\* `e.status_code or 500` (weeks.py:449, main.py:85).
StatusOr500(code) == IF code = 0 THEN 500 ELSE code

\* MusicBrainzClient.get_release (musicbrainz.py:83-111).  `release` is the
\* release MusicBrainz holds for the key: its date text and artist credits.
\* The artist-credit list is part of the answer when the call asks for it
\* (inc=artist-credits); when it does not, the answer carries it or not,
\* as upstream sees fit.
Served(include_artist_credits) ==
    IF include_artist_credits THEN {release.credits}
    ELSE {release.credits, <<>>}

\* ---------------------------------------------------- add_movie_to_week
\* Variant of AddMovieSelectWeek without the ownership check.
AddMovieSelectWeekAnyUser(s) ==
    /\ req[s].op = "add_movie" /\ req[s].pc = "select"
    /\ LET r == req[s]
           w == SelectWeek(s, r.wid)
       IN IF w = NoWeek THEN Rollback(s, r, 404)
          ELSE Goto(s, [r EXCEPT !.week = w], "occupied")

\* weeks.py:374-383, then the occupancy query is issued.
AddMovieSelectWeek(s) ==
    /\ req[s].op = "add_movie" /\ req[s].pc = "select"
    /\ LET r == req[s]
           w == SelectWeek(s, r.wid)
       IN IF w = NoWeek THEN Rollback(s, r, 404)
          ELSE IF w.user_id # r.user THEN Rollback(s, r, 403)
          ELSE Goto(s, [r EXCEPT !.week = w], "occupied")

\* weeks.py:385-394: the advisory occupancy pre-check.
AddMovieOccupied(s) ==
    /\ req[s].op = "add_movie" /\ req[s].pc = "occupied"
    /\ LET r == req[s]
       IN IF DupSlot(View(s, "week_movies"), r.wid, r.pos)
          THEN Rollback(s, r, 409)
          ELSE Goto(s, r, "lookup")

\* weeks.py:398-402, 417-425: the cache lookup; on a hit the slot row is
\* built at once.
AddMovieLookup(s) ==
    /\ req[s].op = "add_movie" /\ req[s].pc = "lookup"
    /\ LET r == req[s]
           found == {m \in View(s, "movies") : m.tmdb_id = r.key}
       IN IF found # {}
          THEN Goto(s, [r EXCEPT !.ent = (CHOOSE m \in found : TRUE).id,
                                 !.stamp = now], "flush_slot")
          ELSE Goto(s, r, "fetch")

\* weeks.py:404-414 and 446-449: the upstream fetch and its error mapping.
AddMovieFetch(s) ==
    /\ req[s].op = "add_movie" /\ req[s].pc = "fetch"
    /\ \E up \in UpstreamStatus :
         LET r == [req[s] EXCEPT !.calls = @ + 1, !.up = up]
         IN IF up = 200
            THEN Goto(s, [r EXCEPT !.stamp = now], "flush_movie")
            ELSE Rollback(s, r, StatusOr500(up))

\* weeks.py:414-418: INSERT INTO movies; an IntegrityError is not caught by
\* the handler's except clauses (NotFoundError, APIError).
AddMovieFlushMovie(s) ==
    /\ req[s].op = "add_movie" /\ req[s].pc = "flush_movie"
    /\ CanWrite(s)
    /\ LET r == req[s]
           rows == View(s, "movies")
           m == [id |-> NextId(rows), tmdb_id |-> r.key, cached_at |-> r.stamp]
       IN IF DupTmdb(rows, r.key)
          THEN Raise(s, r, "IntegrityError(movies)")
          ELSE Flushed(s, [r EXCEPT !.ins.movies = @ \cup {m}, !.ent = m.id,
                                    !.stamp = now], "flush_slot")

\* Variant of AddMovieFlushSlot on a table that also has a unique constraint
\* on (week_id, movie_id).
AddMovieFlushSlotOncePerWeek(s) ==
    /\ req[s].op = "add_movie" /\ req[s].pc = "flush_slot"
    /\ CanWrite(s)
    /\ LET r == req[s]
           rows == View(s, "week_movies")
           x == [id |-> NextId(rows), week_id |-> r.wid, movie_id |-> r.ent,
                 position |-> r.pos, added_at |-> r.stamp]
       IN IF \/ DupSlot(rows, r.wid, r.pos) \/ ~PositionValid(r.pos)
             \/ \E y \in rows : y.week_id = r.wid /\ y.movie_id = r.ent
          THEN Raise(s, r, "IntegrityError(week_movies)")
          ELSE Flushed(s, [r EXCEPT !.ins.week_movies = @ \cup {x},
                                    !.week.updated_at = r.stamp,
                                    !.setUpdated = TRUE,
                                    !.ret = 201], "commit")

\* Variant of AddMovieFlushSlot on a table without uq_week_movie_position.
AddMovieFlushSlotUnchecked(s) ==
    /\ req[s].op = "add_movie" /\ req[s].pc = "flush_slot"
    /\ CanWrite(s)
    /\ LET r == req[s]
           rows == View(s, "week_movies")
           x == [id |-> NextId(rows), week_id |-> r.wid, movie_id |-> r.ent,
                 position |-> r.pos, added_at |-> r.stamp]
       IN Flushed(s, [r EXCEPT !.ins.week_movies = @ \cup {x},
                               !.week.updated_at = r.stamp,
                               !.setUpdated = TRUE,
                               !.ret = 201], "commit")

\* weeks.py:419-445: INSERT INTO week_movies, then week.updated_at = now and
\* the 201 response.
AddMovieFlushSlot(s) ==
    /\ req[s].op = "add_movie" /\ req[s].pc = "flush_slot"
    /\ CanWrite(s)
    /\ LET r == req[s]
           rows == View(s, "week_movies")
           x == [id |-> NextId(rows), week_id |-> r.wid, movie_id |-> r.ent,
                 position |-> r.pos, added_at |-> r.stamp]
       IN IF DupSlot(rows, r.wid, r.pos) \/ ~PositionValid(r.pos)
          THEN Raise(s, r, "IntegrityError(week_movies)")
          ELSE Flushed(s, [r EXCEPT !.ins.week_movies = @ \cup {x},
                                    !.week.updated_at = r.stamp,
                                    !.setUpdated = TRUE,
                                    !.ret = 201], "commit")

\* ---------------------------------------------------- add_album_to_week
\* weeks.py:513-522.
AddAlbumSelectWeek(s) ==
    /\ req[s].op = "add_album" /\ req[s].pc = "select"
    /\ LET r == req[s]
           w == SelectWeek(s, r.wid)
       IN IF w = NoWeek THEN Rollback(s, r, 404)
          ELSE IF w.user_id # r.user THEN Rollback(s, r, 403)
          ELSE Goto(s, [r EXCEPT !.week = w], "occupied")

\* Variant of AddAlbumOccupied without the occupancy pre-check.
AddAlbumOccupiedSkipped(s) ==
    /\ req[s].op = "add_album" /\ req[s].pc = "occupied"
    /\ Goto(s, req[s], "lookup")

\* weeks.py:524-533.
AddAlbumOccupied(s) ==
    /\ req[s].op = "add_album" /\ req[s].pc = "occupied"
    /\ LET r == req[s]
       IN IF DupSlot(View(s, "week_albums"), r.wid, r.pos)
          THEN Rollback(s, r, 409)
          ELSE Goto(s, r, "lookup")

\* weeks.py:537-541, 587-595.
AddAlbumLookup(s) ==
    /\ req[s].op = "add_album" /\ req[s].pc = "lookup"
    /\ LET r == req[s]
           found == {a \in View(s, "albums") : a.musicbrainz_id = r.key}
       IN IF found # {}
          THEN Goto(s, [r EXCEPT !.ent = (CHOOSE a \in found : TRUE).id,
                                 !.stamp = now], "flush_slot")
          ELSE Goto(s, r, "fetch")

\* weeks.py:543-584 and 614-617.  artist_name is "Unknown Artist" unless
\* the body carries an artist credit, and then it is the credit list itself
\* (weeks.py:547-548); the date is parsed in place.
AddAlbumFetch(s) ==
    /\ req[s].op = "add_album" /\ req[s].pc = "fetch"
    /\ \E up \in UpstreamStatus, credits \in Served(FALSE) :
         LET r == [req[s] EXCEPT !.calls = @ + 1, !.up = up]
         IN IF up = 200
            THEN Goto(s, [r EXCEPT !.stamp = now,
                                   !.body.artists = credits,
                                   !.artist = IF credits # <<>> THEN ListValue
                                              ELSE "Unknown Artist",
                                   !.date = AddAlbumReleaseDate(release.date)],
                      "flush_album")
            ELSE /\ credits = release.credits
                 /\ Rollback(s, r, StatusOr500(up))

\* weeks.py:584-588: INSERT INTO albums.  A list cannot be bound to the
\* String column `artist`, so that INSERT fails in the driver.
AddAlbumFlushAlbum(s) ==
    /\ req[s].op = "add_album" /\ req[s].pc = "flush_album"
    /\ CanWrite(s)
    /\ LET r == req[s]
           rows == View(s, "albums")
           a == [id |-> NextId(rows), musicbrainz_id |-> r.key,
                 artist |-> r.artist, release_date |-> r.date,
                 cached_at |-> r.stamp]
       IN IF r.artist = ListValue THEN Raise(s, r, "InterfaceError")
          ELSE IF DupMbid(rows, r.key)
          THEN Raise(s, r, "IntegrityError(albums)")
          ELSE Flushed(s, [r EXCEPT !.ins.albums = @ \cup {a}, !.ent = a.id,
                                    !.stamp = now], "flush_slot")

\* weeks.py:589-613.
AddAlbumFlushSlot(s) ==
    /\ req[s].op = "add_album" /\ req[s].pc = "flush_slot"
    /\ CanWrite(s)
    /\ LET r == req[s]
           rows == View(s, "week_albums")
           x == [id |-> NextId(rows), week_id |-> r.wid, album_id |-> r.ent,
                 position |-> r.pos, added_at |-> r.stamp]
       IN IF DupSlot(rows, r.wid, r.pos) \/ ~PositionValid(r.pos)
          THEN Raise(s, r, "IntegrityError(week_albums)")
          ELSE Flushed(s, [r EXCEPT !.ins.week_albums = @ \cup {x},
                                    !.week.updated_at = r.stamp,
                                    !.setUpdated = TRUE,
                                    !.ret = 201], "commit")

\* ----------------------------------------------- remove_movie_from_week
\* Variant of RemoveMovieSelectWeek without the ownership check.
RemoveMovieSelectWeekAnyUser(s) ==
    /\ req[s].op = "remove_movie" /\ req[s].pc = "select"
    /\ LET r == req[s]
           w == SelectWeek(s, r.wid)
       IN IF w = NoWeek THEN Rollback(s, r, 404)
          ELSE Goto(s, [r EXCEPT !.week = w], "slot")

\* weeks.py:471-480.
RemoveMovieSelectWeek(s) ==
    /\ req[s].op = "remove_movie" /\ req[s].pc = "select"
    /\ LET r == req[s]
           w == SelectWeek(s, r.wid)
       IN IF w = NoWeek THEN Rollback(s, r, 404)
          ELSE IF w.user_id # r.user THEN Rollback(s, r, 403)
          ELSE Goto(s, [r EXCEPT !.week = w], "slot")

\* A removal that clears the week's film slots at both positions.
RemoveMovieSlotBoth(s) ==
    /\ req[s].op = "remove_movie" /\ req[s].pc = "slot"
    /\ LET r == req[s]
           found == {x \in View(s, "week_movies") :
                        x.week_id = r.wid /\ x.position = r.pos}
           all == {x \in View(s, "week_movies") : x.week_id = r.wid}
       IN IF found = {} THEN Rollback(s, r, 404)
          ELSE Return(s, [r EXCEPT !.del.week_movies = all,
                                   !.week.updated_at = now,
                                   !.setUpdated = TRUE], 204)

\* weeks.py:482-495: find the slot, mark it deleted, touch updated_at.
RemoveMovieSlot(s) ==
    /\ req[s].op = "remove_movie" /\ req[s].pc = "slot"
    /\ LET r == req[s]
           found == {x \in View(s, "week_movies") :
                        x.week_id = r.wid /\ x.position = r.pos}
       IN IF found = {} THEN Rollback(s, r, 404)
          ELSE Return(s, [r EXCEPT !.del.week_movies = found,
                                   !.week.updated_at = now,
                                   !.setUpdated = TRUE], 204)

\* ----------------------------------------------- remove_album_from_week
\* weeks.py:639-648.
RemoveAlbumSelectWeek(s) ==
    /\ req[s].op = "remove_album" /\ req[s].pc = "select"
    /\ LET r == req[s]
           w == SelectWeek(s, r.wid)
       IN IF w = NoWeek THEN Rollback(s, r, 404)
          ELSE IF w.user_id # r.user THEN Rollback(s, r, 403)
          ELSE Goto(s, [r EXCEPT !.week = w], "slot")

\* weeks.py:650-663.
RemoveAlbumSlot(s) ==
    /\ req[s].op = "remove_album" /\ req[s].pc = "slot"
    /\ LET r == req[s]
           found == {x \in View(s, "week_albums") :
                        x.week_id = r.wid /\ x.position = r.pos}
       IN IF found = {} THEN Rollback(s, r, 404)
          ELSE Return(s, [r EXCEPT !.del.week_albums = found,
                                   !.week.updated_at = now,
                                   !.setUpdated = TRUE], 204)

\* ------------------------------------------------------------ get_movie
\* Variant of GetMovieLookup that ignores the cached row.
GetMovieLookupAlwaysFetch(s) ==
    /\ req[s].op = "get_movie" /\ req[s].pc = "lookup"
    /\ Goto(s, req[s], "fetch")

\* movies.py:149-169: the cache lookup; a hit answers from the row.
GetMovieLookup(s) ==
    /\ req[s].op = "get_movie" /\ req[s].pc = "lookup"
    /\ LET r == req[s]
           found == {m \in View(s, "movies") : m.tmdb_id = r.key}
       IN IF found # {}
          THEN Return(s, [r EXCEPT !.ent = (CHOOSE m \in found : TRUE).id,
                                   !.resp.cached = 1], 200)
          ELSE Goto(s, r, "fetch")

\* movies.py:171-208: the upstream fetch; the new row is added to the session
\* but not flushed.  NotFoundError becomes 404 here, any other APIError goes
\* to the global handlers (main.py:59-87).
GetMovieFetch(s) ==
    /\ req[s].op = "get_movie" /\ req[s].pc = "fetch"
    /\ \E up \in UpstreamStatus :
         LET r == [req[s] EXCEPT !.calls = @ + 1, !.up = up]
             m == [id |-> 0, tmdb_id |-> r.key, cached_at |-> now]
         IN IF up = 200
            THEN Return(s, [r EXCEPT !.add.movies = {m}, !.resp.cached = 0], 200)
            ELSE Rollback(s, r, StatusOr500(up))

\* ------------------------------------------------------------ get_album
\* albums.py:170-186: a hit answers from the row, the date through
\* isoformat().
GetAlbumLookup(s) ==
    /\ req[s].op = "get_album" /\ req[s].pc = "lookup"
    /\ LET r == req[s]
           found == {a \in View(s, "albums") : a.musicbrainz_id = r.key}
           row == CHOOSE a \in found : TRUE
       IN IF found # {}
          THEN Return(s, [r EXCEPT !.ent = row.id,
                                   !.resp.cached = 1,
                                   !.resp.artist = row.artist,
                                   !.resp.release_date =
                                       IsoFormat(row.release_date)], 200)
          ELSE Goto(s, r, "fetch")

\* albums.py:188-218: the row gets release.artist_name or "Unknown Artist"
\* and the parsed date; the response gets artist_name and the date text as
\* upstream sent them.
GetAlbumFetch(s) ==
    /\ req[s].op = "get_album" /\ req[s].pc = "fetch"
    /\ \E up \in UpstreamStatus, credits \in Served(FALSE) :
         LET r == [req[s] EXCEPT !.calls = @ + 1, !.up = up]
             a == [id |-> 0, musicbrainz_id |-> r.key,
                   artist |-> OrUnknown(artist_name(credits)),
                   release_date |-> _parse_musicbrainz_date(release.date),
                   cached_at |-> now]
         IN IF up = 200
            THEN Return(s, [r EXCEPT !.add.albums = {a}, !.resp.cached = 0,
                                     !.body.artists = credits,
                                     !.resp.artist = artist_name(credits),
                                     !.resp.release_date = release.date], 200)
            ELSE /\ credits = release.credits
                 /\ Rollback(s, r, StatusOr500(up))

\* ------------------------------------------------------- upstream credits
MaxCredits == 1                 \* entries per upstream credit list
PersonIds == {7}                \* TMDB person ids
ArtistIds == {9}                \* MusicBrainz artist ids (stand-ins for UUIDs)
CastOrders == {0}               \* TMDB's own `order` values
Jobs == {"Director", "Gaffer"}
Limits == {1, 2}                \* the `limit` query parameter

\* movies.py:324.
KeyJobs == {"Director", "Writer", "Screenplay", "Composer", "Producer",
            "Cinematography"}

SeqsUpTo(S, n) == UNION {[1..k -> S] : k \in 0..n}

CastLists == SeqsUpTo({[id |-> x, order |-> o] : x \in PersonIds, o \in CastOrders},
                      MaxCredits)
CrewLists == SeqsUpTo({[id |-> x, job |-> j] : x \in PersonIds, j \in Jobs},
                      MaxCredits)
\* A credit whose `artist` object is missing has artist 0.
ArtistCreditLists ==
    SeqsUpTo({[name |-> "A", joinphrase |-> None, artist |-> a] :
                 a \in ArtistIds \cup {0}}, MaxCredits)

Take(q, n) == SubSeq(q, 1, IF n < Len(q) THEN n ELSE Len(q))

\* ORDER BY "order": rows by their order value, ties in rowid order.
RECURSIVE ByOrder(_)
ByOrder(rows) ==
    IF rows = {} THEN <<>>
    ELSE LET m == CHOOSE x \in rows :
                     \A y \in rows :
                        x.order < y.order \/ (x.order = y.order /\ x.id <= y.id)
         IN <<m>> \o ByOrder(rows \ {m})

\* No ORDER BY: the rows as the movie_id index scan yields them, in rowid order.
RECURSIVE ById(_)
ById(rows) ==
    IF rows = {} THEN <<>>
    ELSE LET m == CHOOSE x \in rows : \A y \in rows : x.id <= y.id
         IN <<m>> \o ById(rows \ {m})

\* ---------------------------------------------------- get_movie_credits
\* movies.py:226-227.
MovieCreditsLookup(s) ==
    /\ req[s].op = "movie_credits" /\ req[s].pc = "lookup"
    /\ LET r == req[s]
           found == {m \in View(s, "movies") : m.tmdb_id = r.key}
       IN IF found # {}
          THEN Goto(s, [r EXCEPT !.ent = (CHOOSE m \in found : TRUE).id],
                    "cached_cast")
          ELSE Goto(s, r, "fetch_credits")

\* movies.py:231-237.
MovieCreditsCachedCast(s) ==
    /\ req[s].op = "movie_credits" /\ req[s].pc = "cached_cast"
    /\ LET r == req[s]
           rows == {x \in View(s, "movie_cast") : x.movie_id = r.ent}
       IN Goto(s, [r EXCEPT !.got.cast = Take(ByOrder(rows), r.limit)],
               "cached_crew")

\* A handler that goes upstream whatever it found stored.
MovieCreditsCachedCrewRefetch(s) ==
    /\ req[s].op = "movie_credits" /\ req[s].pc = "cached_crew"
    /\ Goto(s, req[s], "fetch_credits")

\* movies.py:239-244: stored credits are answered from storage, otherwise
\* the handler goes upstream.
MovieCreditsCachedCrew(s) ==
    /\ req[s].op = "movie_credits" /\ req[s].pc = "cached_crew"
    /\ LET r == req[s]
           rows == {x \in View(s, "movie_crew") : x.movie_id = r.ent}
           crew == Take(ById(rows), r.limit)
       IN IF r.got.cast # <<>> \/ crew # <<>>
          THEN Goto(s, [r EXCEPT !.got.crew = crew], "load_people")
          ELSE Goto(s, r, "fetch_credits")

\* movies.py:246-275: one Person query (scalar_one) per stored credit.
PersonOf(s, row) == {x \in View(s, "people") : x.id = row.person_id}

MovieCreditsLoadPeople(s) ==
    /\ req[s].op = "movie_credits" /\ req[s].pc = "load_people"
    /\ LET r == req[s]
           rows == {r.got.cast[i] : i \in DOMAIN r.got.cast} \cup
                   {r.got.crew[i] : i \in DOMAIN r.got.crew}
       IN IF \E x \in rows : PersonOf(s, x) = {}
          THEN Raise(s, r, "NoResultFound")
          ELSE Return(s, [r EXCEPT
                 !.resp.cast =
                    [i \in DOMAIN r.got.cast |->
                       [id |-> (CHOOSE x \in PersonOf(s, r.got.cast[i]) : TRUE).tmdb_id,
                        order |-> r.got.cast[i].order]],
                 !.resp.crew =
                    [i \in DOMAIN r.got.crew |->
                       [id |-> (CHOOSE x \in PersonOf(s, r.got.crew[i]) : TRUE).tmdb_id,
                        job |-> r.got.crew[i].job]]], 200)

\* A crew list cut to the limit before the key jobs are picked out of it.
CrewToStoreCutFirst(r) ==
    SelectSeq(Take(r.body.crew, r.limit), LAMBDA c : c.job \in KeyJobs)

\* movies.py:291 and 325: the credits the handler persists and returns.
CastToStore(r) == Take(r.body.cast, r.limit)
CrewToStore(r) ==
    Take(SelectSeq(r.body.crew, LAMBDA c : c.job \in KeyJobs), r.limit)

\* The handler's position after the credit at (phase, idx): the next credit's
\* Person query, or the response (movies.py:291, 327, 353-376).
MovieCreditsAdvance(r) ==
    IF r.phase = "cast" /\ r.idx < Len(CastToStore(r))
    THEN [r EXCEPT !.idx = @ + 1, !.pc = "person_select"]
    ELSE IF r.phase = "cast" /\ CrewToStore(r) # <<>>
    THEN [r EXCEPT !.phase = "crew", !.idx = 1, !.pc = "person_select"]
    ELSE IF r.phase = "crew" /\ r.idx < Len(CrewToStore(r))
    THEN [r EXCEPT !.idx = @ + 1, !.pc = "person_select"]
    ELSE [r EXCEPT !.pc = "commit", !.ret = 200,
                   !.resp.cast = CastToStore(r), !.resp.crew = CrewToStore(r)]

\* movies.py:279 and 372-373: the credits call (TMDBClient.get_movie_credits,
\* tmdb.py); `film` is what TMDB holds for the key, its cast and crew lists.
\* With a cached film the cast loop starts at once.
MovieCreditsFetch(s) ==
    /\ req[s].op = "movie_credits" /\ req[s].pc = "fetch_credits"
    /\ \E up \in UpstreamStatus :
         LET r == [req[s] EXCEPT !.calls = @ + 1, !.up = up]
             got == [r EXCEPT !.body.cast = film.cast, !.body.crew = film.crew,
                              !.phase = "cast", !.idx = 0]
         IN IF up = 200
            THEN IF r.ent = 0 THEN Goto(s, got, "fetch_movie")
                 ELSE Goto(s, MovieCreditsAdvance(got), MovieCreditsAdvance(got).pc)
            ELSE Rollback(s, r, StatusOr500(up))

\* movies.py:282-293: the film itself is fetched and added.
MovieCreditsFetchMovie(s) ==
    /\ req[s].op = "movie_credits" /\ req[s].pc = "fetch_movie"
    /\ \E up \in UpstreamStatus :
         LET r == [req[s] EXCEPT !.calls = @ + 1, !.up = up]
             m == [id |-> 0, tmdb_id |-> r.key, cached_at |-> now]
         IN IF up = 200
            THEN Goto(s, [r EXCEPT !.add.movies = {m}], "flush_movie")
            ELSE Rollback(s, r, StatusOr500(up))

\* A handler that goes on to the credits without flushing the film.
MovieCreditsMovieUnflushed(s) ==
    /\ req[s].op = "movie_credits" /\ req[s].pc = "flush_movie"
    /\ Goto(s, MovieCreditsAdvance(req[s]), MovieCreditsAdvance(req[s]).pc)

\* movies.py:294: flush to get the film's id.
MovieCreditsFlushMovie(s) ==
    /\ req[s].op = "movie_credits" /\ req[s].pc = "flush_movie"
    /\ CanWrite(s)
    /\ LET r == req[s]
           f == AfterFlush(r)
           g == [f EXCEPT !.ent = (CHOOSE m \in f.ins.movies : m.tmdb_id = r.key).id]
       IN IF PendingError(r) # "" THEN Raise(s, r, PendingError(r))
          ELSE Flushed(s, MovieCreditsAdvance(g), MovieCreditsAdvance(g).pc)

\* The credit being stored and its row (movies.py:311-319, 342-350).
CreditAt(r) ==
    IF r.phase = "cast" THEN CastToStore(r)[r.idx] ELSE CrewToStore(r)[r.idx]

WithCredit(r, person) ==
    IF r.phase = "cast"
    THEN [r EXCEPT !.add.movie_cast =
             {[id |-> 0, movie_id |-> r.ent, person_id |-> person,
               order |-> CreditAt(r).order]}]
    ELSE [r EXCEPT !.add.movie_crew =
             {[id |-> 0, movie_id |-> r.ent, person_id |-> person,
               job |-> CreditAt(r).job]}]

\* A handler that adds a Person for every credit without looking one up.
MovieCreditsPersonAlwaysNew(s) ==
    /\ req[s].op = "movie_credits" /\ req[s].pc = "person_select"
    /\ req[s].add # EmptyTables => CanWrite(s)
    /\ LET r == AfterFlush(req[s])
           next == [r EXCEPT !.add.people =
                       {[id |-> 0, tmdb_id |-> CreditAt(r).id]},
                             !.pc = "person_flush"]
       IN IF req[s].add # EmptyTables
          THEN Flushed(s, next, next.pc)
          ELSE Goto(s, next, next.pc)

\* movies.py:297-309 / 329-340: the Person query autoflushes the credit row
\* added by the previous iteration; a known person gets the credit row at
\* once, a new one is added first.
MovieCreditsPersonSelect(s) ==
    /\ req[s].op = "movie_credits" /\ req[s].pc = "person_select"
    /\ req[s].add # EmptyTables => CanWrite(s)
    /\ LET r == AfterFlush(req[s])
           found == {x \in db.people \cup r.ins.people : x.tmdb_id = CreditAt(r).id}
           next == IF found # {}
                   THEN MovieCreditsAdvance(
                           WithCredit(r, (CHOOSE x \in found : TRUE).id))
                   ELSE [r EXCEPT !.add.people =
                            {[id |-> 0, tmdb_id |-> CreditAt(r).id]},
                                  !.pc = "person_flush"]
       IN IF req[s].add # EmptyTables
          THEN Flushed(s, next, next.pc)
          ELSE Goto(s, next, next.pc)

\* movies.py:308-309 / 339-340: INSERT INTO people, then the credit row.
MovieCreditsPersonFlush(s) ==
    /\ req[s].op = "movie_credits" /\ req[s].pc = "person_flush"
    /\ CanWrite(s)
    /\ LET r == req[s]
           f == AfterFlush(r)
           person == CHOOSE x \in f.ins.people : x.tmdb_id = CreditAt(r).id
           next == MovieCreditsAdvance(WithCredit(f, person.id))
       IN IF PendingError(r) # "" THEN Raise(s, r, PendingError(r))
          ELSE Flushed(s, next, next.pc)

\* ---------------------------------------------------- get_album_credits
\* albums.py:236-237.
AlbumCreditsLookup(s) ==
    /\ req[s].op = "album_credits" /\ req[s].pc = "lookup"
    /\ LET r == req[s]
           found == {a \in View(s, "albums") : a.musicbrainz_id = r.key}
       IN IF found # {}
          THEN Goto(s, [r EXCEPT !.ent = (CHOOSE a \in found : TRUE).id],
                    "cached_artists")
          ELSE Goto(s, r, "fetch_release")

\* A handler that counts the stored rows against the limit and goes
\* upstream for more.
AlbumCreditsCachedTopUp(s) ==
    /\ req[s].op = "album_credits" /\ req[s].pc = "cached_artists"
    /\ LET r == req[s]
           rows == {x \in View(s, "album_artists") : x.album_id = r.ent}
       IN IF Cardinality(rows) >= r.limit
          THEN Goto(s, [r EXCEPT !.got.artists = Take(ByOrder(rows), r.limit)],
                    "load_artists")
          ELSE Goto(s, r, "fetch_release")

\* albums.py:239-249.
AlbumCreditsCached(s) ==
    /\ req[s].op = "album_credits" /\ req[s].pc = "cached_artists"
    /\ LET r == req[s]
           rows == {x \in View(s, "album_artists") : x.album_id = r.ent}
       IN IF rows # {}
          THEN Goto(s, [r EXCEPT !.got.artists = Take(ByOrder(rows), r.limit)],
                    "load_artists")
          ELSE Goto(s, r, "fetch_release")

\* albums.py:250-267: one Artist query (scalar_one) per stored credit.
ArtistOf(s, row) == {x \in View(s, "artists") : x.id = row.artist_id}

AlbumCreditsLoadArtists(s) ==
    /\ req[s].op = "album_credits" /\ req[s].pc = "load_artists"
    /\ LET r == req[s]
       IN IF \E i \in DOMAIN r.got.artists : ArtistOf(s, r.got.artists[i]) = {}
          THEN Raise(s, r, "NoResultFound")
          ELSE Return(s, [r EXCEPT
                 !.resp.artists =
                    [i \in DOMAIN r.got.artists |->
                       [id |-> (CHOOSE x \in ArtistOf(s, r.got.artists[i]) :
                                   TRUE).musicbrainz_id,
                        order |-> r.got.artists[i].order]]], 200)

\* albums.py:289-292: the credits considered, with their enumerate() index.
CreditsToStore(r) == Take(r.body.artists, r.limit)

\* The credits after position idx that carry an artist object.
LaterArtists(r) ==
    {i \in DOMAIN CreditsToStore(r) : i > r.idx /\ CreditsToStore(r)[i].artist # 0}

\* albums.py:320-331: the response lists the credits that carry an artist.
RECURSIVE ArtistsFrom(_, _)
ArtistsFrom(q, i) ==
    IF i > Len(q) THEN <<>>
    ELSE IF q[i].artist = 0 THEN ArtistsFrom(q, i + 1)
    ELSE <<[id |-> q[i].artist, order |-> i - 1]>> \o ArtistsFrom(q, i + 1)

\* The handler's position after the credit at idx: the next Artist query, or
\* the response (albums.py:289-333).
AlbumCreditsAdvance(r) ==
    IF LaterArtists(r) # {}
    THEN [r EXCEPT !.idx = CHOOSE i \in LaterArtists(r) :
                               \A j \in LaterArtists(r) : i <= j,
                   !.pc = "artist_select"]
    ELSE [r EXCEPT !.pc = "commit", !.ret = 200,
                   !.resp.artists = ArtistsFrom(CreditsToStore(r), 1)]

\* albums.py:273-284: the release with its artist credits; an uncached
\* album is added with artist_name or "Unknown Artist".
AlbumCreditsFetch(s) ==
    /\ req[s].op = "album_credits" /\ req[s].pc = "fetch_release"
    /\ \E up \in UpstreamStatus, credits \in Served(TRUE) :
         LET r == [req[s] EXCEPT !.calls = @ + 1, !.up = up]
             got == [r EXCEPT !.body.artists = credits, !.idx = 0]
             a == [id |-> 0, musicbrainz_id |-> r.key,
                   artist |-> OrUnknown(artist_name(credits)),
                   release_date |-> _parse_musicbrainz_date(release.date),
                   cached_at |-> now]
         IN IF up = 200
            THEN IF r.ent = 0
                 THEN Goto(s, [got EXCEPT !.add.albums = {a}], "flush_album")
                 ELSE Goto(s, AlbumCreditsAdvance(got), AlbumCreditsAdvance(got).pc)
            ELSE Rollback(s, r, StatusOr500(up))

\* albums.py:285-286: flush to get the album's id.
AlbumCreditsFlushAlbum(s) ==
    /\ req[s].op = "album_credits" /\ req[s].pc = "flush_album"
    /\ CanWrite(s)
    /\ LET r == req[s]
           f == AfterFlush(r)
           g == [f EXCEPT !.ent = (CHOOSE a \in f.ins.albums :
                                      a.musicbrainz_id = r.key).id]
       IN IF PendingError(r) # "" THEN Raise(s, r, PendingError(r))
          ELSE Flushed(s, AlbumCreditsAdvance(g), AlbumCreditsAdvance(g).pc)

\* albums.py:311-318.
WithArtistCredit(r, artist) ==
    [r EXCEPT !.add.album_artists =
        {[id |-> 0, album_id |-> r.ent, artist_id |-> artist,
          order |-> r.idx - 1]}]

\* albums.py:294-309: the Artist query autoflushes the previous
\* iteration's association row.
AlbumCreditsArtistSelect(s) ==
    /\ req[s].op = "album_credits" /\ req[s].pc = "artist_select"
    /\ req[s].add # EmptyTables => CanWrite(s)
    /\ LET r == AfterFlush(req[s])
           mbid == CreditsToStore(r)[r.idx].artist
           found == {x \in db.artists \cup r.ins.artists : x.musicbrainz_id = mbid}
           next == IF found # {}
                   THEN AlbumCreditsAdvance(
                           WithArtistCredit(r, (CHOOSE x \in found : TRUE).id))
                   ELSE [r EXCEPT !.add.artists =
                            {[id |-> 0, musicbrainz_id |-> mbid]},
                                  !.pc = "artist_flush"]
       IN IF req[s].add # EmptyTables
          THEN Flushed(s, next, next.pc)
          ELSE Goto(s, next, next.pc)

\* albums.py:308-318: INSERT INTO artists, then the association row.
AlbumCreditsArtistFlush(s) ==
    /\ req[s].op = "album_credits" /\ req[s].pc = "artist_flush"
    /\ CanWrite(s)
    /\ LET r == req[s]
           f == AfterFlush(r)
           mbid == CreditsToStore(r)[r.idx].artist
           artist == CHOOSE x \in f.ins.artists : x.musicbrainz_id = mbid
           next == AlbumCreditsAdvance(WithArtistCredit(f, artist.id))
       IN IF PendingError(r) # "" THEN Raise(s, r, PendingError(r))
          ELSE Flushed(s, next, next.pc)

\* --------------------------------------------------------------- get_db
\* database.py:41-44: the commit after the handler returned.  Rows added but
\* never flushed are inserted now, a dirty week is UPDATEd (one row must
\* match), rows marked deleted are DELETEd by primary key (a DELETE that
\* matches nothing only warns).  A failure rolls everything back; the
\* response is then the handler's or a 500, depending on whether the
\* framework runs the dependency's exit code before or after sending.
HasWrites(r) ==
    \/ r.add # EmptyTables \/ r.ins # EmptyTables \/ r.del # EmptyTables
    \/ r.setNotes \/ r.setUpdated

CommitError(r) ==
    IF PendingError(r) # "" THEN PendingError(r)
    ELSE IF /\ r.setNotes \/ r.setUpdated
            /\ \A w \in db.weeks \cup r.ins.weeks : w.id # r.week.id
    THEN "StaleDataError"
    ELSE ""

Ids(rows) == {x.id : x \in rows}

Applied(r) ==
    [t \in DOMAIN EmptyTables |->
        IF t = "weeks"
        THEN {IF w.id = r.week.id
              THEN [w EXCEPT !.notes = IF r.setNotes THEN r.week.notes ELSE @,
                             !.updated_at = IF r.setUpdated
                                            THEN r.week.updated_at ELSE @]
              ELSE w :
                w \in {x \in db.weeks \cup r.ins.weeks :
                          x.id \notin Ids(r.del.weeks)}}
        ELSE {x \in db[t] \cup r.ins[t] \cup Inserted(r, t) :
                 x.id \notin Ids(r.del[t])}]

Commit(s) ==
    /\ req[s].pc = "commit"
    /\ LET r == req[s]
       IN IF ~HasWrites(r)
          THEN /\ req' = [req EXCEPT ![s] = [r EXCEPT !.pc = "done",
                                                     !.status = r.ret,
                                                     !.committed = TRUE]]
               /\ hist' = IF rec THEN Append(hist, LogEntry(r, r.ret)) ELSE hist
               /\ UNCHANGED <<db, writer, now, issued, rec, release, film, net>>
          ELSE /\ CanWrite(s)
               /\ IF CommitError(r) # ""
                  THEN \E code \in {r.ret, 500} :
                          Rollback(s, [r EXCEPT !.exc = CommitError(r)], code)
                  ELSE /\ db' = Applied(r)
                       /\ writer' = 0
                       /\ req' = [req EXCEPT ![s] =
                                    [r EXCEPT !.pc = "done", !.status = r.ret,
                                              !.committed = TRUE,
                                              !.add = EmptyTables,
                                              !.ins = EmptyTables,
                                              !.del = EmptyTables,
                                              !.setNotes = FALSE,
                                              !.setUpdated = FALSE]]
                       /\ hist' = IF rec THEN Append(hist, LogEntry(r, r.ret))
                                  ELSE hist
                       /\ UNCHANGED <<now, issued, rec, release, film, net>>

\* ------------------------------------------------------------- register
\* Texts are sequences of one-character strings.  str.lower() and
\* str.casefold() on the letters the inputs use.
LowerChar(c) == IF c = "A" THEN "a" ELSE IF c = "X" THEN "x" ELSE c

Lower(q) == [i \in DOMAIN q |-> LowerChar(q[i])]

CaseFold(q) == [i \in DOMAIN q |-> LowerChar(q[i])]

\* schemas/user.py:22-30: the validated username is the lowercased input.
validate_username(q) == Lower(q)

\* schemas/user.py:16, EmailStr: the validated address keeps its local part
\* and has its domain lowercased.
AtSign(q) == CHOOSE i \in DOMAIN q : q[i] = "@"

EmailStr(q) == [i \in DOMAIN q |-> IF i > AtSign(q) THEN LowerChar(q[i]) ELSE q[i]]

\* POST /auth/register arrives with a body that passed validation; no
\* authentication is involved.
RegisterArrive(s, username, email, par, budget, snap) ==
    /\ ~InFlight(s)
    /\ \A t \in Slots : t < s => InFlight(t)
    /\ Cardinality({t \in Slots : InFlight(t)}) < par
    /\ issued < budget
    /\ issued' = issued + 1
    /\ req' = [req EXCEPT ![s] =
                 [Idle EXCEPT !.op = "register",
                              !.username = validate_username(username),
                              !.email = EmailStr(email),
                              !.stamp = now, !.pc = "select_username",
                              !.pre = IF snap THEN db ELSE EmptyTables]]
    /\ UNCHANGED <<db, writer, now, hist, rec, release, film, net>>

\* auth.py:35-42.
RegisterSelectUsername(s) ==
    /\ req[s].op = "register" /\ req[s].pc = "select_username"
    /\ LET r == req[s]
       IN IF \E u \in View(s, "users") : u.username = r.username
          THEN Rollback(s, r, 409)
          ELSE Goto(s, r, "select_email")

\* auth.py:44-51.
RegisterSelectEmail(s) ==
    /\ req[s].op = "register" /\ req[s].pc = "select_email"
    /\ LET r == req[s]
       IN IF \E u \in View(s, "users") : u.email = r.email
          THEN Rollback(s, r, 409)
          ELSE Goto(s, r, "flush")

\* auth.py:53-62 with ix_users_username / ix_users_email (unique, binary
\* collation): the INSERT; an IntegrityError is not caught.
RegisterFlush(s) ==
    /\ req[s].op = "register" /\ req[s].pc = "flush"
    /\ CanWrite(s)
    /\ LET r == req[s]
           rows == View(s, "users")
           u == [id |-> NextId(rows), username |-> r.username,
                 email |-> r.email, is_active |-> TRUE, created_at |-> now]
       IN IF \E x \in rows : x.username = u.username \/ x.email = u.email
          THEN Raise(s, r, "IntegrityError(users)")
          ELSE Flushed(s, [r EXCEPT !.ins.users = @ \cup {u}, !.ent = u.id],
                       "refresh")

\* auth.py:63-71: refresh and the 201 response.
RegisterRefresh(s) ==
    /\ req[s].op = "register" /\ req[s].pc = "refresh"
    /\ Return(s, req[s], 201)

RegisterSteps(s) ==
    \/ RegisterSelectUsername(s) \/ RegisterSelectEmail(s)
    \/ RegisterFlush(s) \/ RegisterRefresh(s)

\* ----------------------------------------------------------- API clients
\* services/base.py, services/tmdb.py, services/musicbrainz.py.  `net` is
\* the event loop's side of the upstream traffic: its clock (loop.time(),
\* in ticks), the client each inbound call got from its dependency, and the
\* requests sent so far.
Tasks == {1, 2}                 \* inbound calls being handled
ClientKinds == {"tmdb", "musicbrainz"}
Paths == {"detail", "credits", "search", "add"}

app == <<db, req, writer, now, issued, hist, rec, release, film>>

\* base.py:43 with tmdb.py:47 (the default, 0.0) and musicbrainz.py:47 (1.0).
rate_limit_delay(kind) == IF kind = "musicbrainz" THEN 1 * Second ELSE 0

\* What a client call ends in: the exception raised ("" for a parsed
\* result), its status_code (0 for None) and its retry_after (<<>> for
\* None, <<n>> for n).
Result(exc, status_code, retry_after) ==
    [exc |-> exc, status_code |-> status_code, retry_after |-> retry_after]

NoResult == Result("", 0, <<>>)

\* What upstream did with a request: a response (status, Retry-After
\* header, body), a timeout or a transport error.
Upstream(kind, status, retry_after, body) ==
    [kind |-> kind, status |-> status, retry_after |-> retry_after,
     body |-> body]

NoOutcome == Upstream("none", 0, Null, "")

\* A cover-art validation: whether a release-group id was given, the probes
\* made and the URL returned ("pending" until it returns, "null" for None).
NoCover == [given |-> FALSE, probes |-> <<>>, url |-> "pending"]

\* The response at the service boundary: status and Retry-After header
\* (<<>> when absent).
Answer(status, retry_after) == [status |-> status, retry_after |-> retry_after]

\* base.py:52-57: a client as __init__ leaves it.
NoClient ==
    [kind |-> "none", path |-> "none", pc |-> "none",
     last_request_time |-> 0, wake |-> 0, calls |-> 0, slept |-> FALSE,
     outcome |-> NoOutcome, result |-> NoResult, cover |-> NoCover,
     answer |-> Answer(0, <<>>)]

NoNet == [time |-> 0, client |-> [t \in Tasks |-> NoClient], sent |-> <<>>]

\* tmdb.py:276-281, musicbrainz.py:241-246: the dependency makes a new
\* client for every inbound call.
GetClient(t, kind, path) ==
    /\ net.client[t].pc = "none"
    /\ \A u \in Tasks : u < t => net.client[u].pc # "none"
    /\ net' = [net EXCEPT !.client[t] =
                 [NoClient EXCEPT !.kind = kind, !.path = path, !.pc = "ready"]]
    /\ UNCHANGED app

\* base.py:168-175 and 113: the caller awaits get(), which awaits
\* _wait_for_rate_limit first.
Get(t) ==
    /\ net.client[t].pc = "ready" /\ net.client[t].calls < MaxCalls
    /\ net' = [net EXCEPT !.client[t].pc = "wait", !.client[t].calls = @ + 1]
    /\ UNCHANGED app

\* base.py:115-128: the request goes out; nothing is awaited between the
\* end of _wait_for_rate_limit and client.request.
Sent(n, t) ==
    [n EXCEPT !.sent = Append(@, [api |-> n.client[t].kind, at |-> n.time,
                                  task |-> t]),
              !.client[t].pc = "await"]

\* base.py:81-88, up to the sleep.
WaitForRateLimit(t) ==
    /\ net.client[t].pc = "wait"
    /\ LET c == net.client[t]
           delay == rate_limit_delay(c.kind)
           elapsed == net.time - c.last_request_time
       IN net' = IF delay > 0 /\ elapsed < delay
                 THEN [net EXCEPT !.client[t].pc = "sleep",
                                  !.client[t].slept = TRUE,
                                  !.client[t].wake = net.time + (delay - elapsed)]
                 ELSE IF delay > 0
                 THEN Sent([net EXCEPT !.client[t].last_request_time = net.time], t)
                 ELSE Sent(net, t)
    /\ UNCHANGED app

\* A sleep that returns at once.
AfterSleepAtOnce(t) ==
    /\ net.client[t].pc = "sleep"
    /\ net' = Sent([net EXCEPT !.client[t].last_request_time = net.time], t)
    /\ UNCHANGED app

\* base.py:87-88: asyncio.sleep returns once the delay has passed.
AfterSleep(t) ==
    /\ net.client[t].pc = "sleep" /\ net.time >= net.client[t].wake
    /\ net' = Sent([net EXCEPT !.client[t].last_request_time = net.time], t)
    /\ UNCHANGED app

\* The event-loop clock advances.
LoopTick ==
    /\ net.time < MaxLoopTime
    /\ net' = [net EXCEPT !.time = @ + 1]
    /\ UNCHANGED app

\* --------------------------------------------------- upstream responses
Statuses == {200, 301, 404, 429, 500, 503}
Bodies == {"object", "array", "text"}   \* the expected JSON, other JSON, no JSON
RetryAfterValues ==
    {Null,                                           \* no Retry-After header
     <<>>,                                           \* ''
     <<"3", "0">>,                                   \* '30'
     <<"0">>,                                        \* '0'
     <<" ", "7">>,                                   \* ' 7'
     <<"1", ".", "5">>,                              \* '1.5'
     <<"W", "e", "d", ",", " ", "2", "1", " ", "O", "c", "t">>}   \* an HTTP-date

Responses(statuses, retries, bodies) ==
    {Upstream("response", st, ra, b) : st \in statuses, ra \in retries, b \in bodies}

Failures == {Upstream("timeout", 0, Null, ""), Upstream("error", 0, Null, "")}

\* base.py:136-166.
_handle_response(o) ==
    IF o.status = 404 THEN Result("NotFoundError", 404, <<>>)
    ELSE IF o.status = 429
    THEN IF ~Txt(o.retry_after) \/ o.retry_after = <<>>
         THEN Result("RateLimitError", 429, <<>>)
         ELSE IF IsInt(o.retry_after)
         THEN Result("RateLimitError", 429, <<IntOf(o.retry_after)>>)
         ELSE Result("ValueError", 0, <<>>)
    ELSE IF o.status >= 400 THEN Result("APIError", o.status, <<>>)
    ELSE IF o.body = "text" THEN Result("APIError", 0, <<>>)
    ELSE NoResult

\* base.py:90-134.
_request(o) ==
    IF o.kind \in {"timeout", "error"} THEN Result("APIError", 0, <<>>)
    ELSE _handle_response(o)

\* tmdb.py:107-109, musicbrainz.py:110-111 and the other client methods:
\* the JSON document is validated against the response model.
model_validate(o) ==
    IF _request(o).exc = "" /\ o.body # "object"
    THEN Result("ValidationError", 0, <<>>)
    ELSE _request(o)

\* `if exc.retry_after:` (main.py:71-73).
RetryAfterHeader(r) ==
    IF r.retry_after # <<>> /\ r.retry_after[1] # 0 THEN r.retry_after ELSE <<>>

\* The response for a client call's result: the except clauses of the
\* handler (movies.py:205-206, 378-379; albums.py:215-216, 338-339;
\* weeks.py:446-449, 614-617; none in the search handlers), then the
\* application's exception handlers (main.py:59-87), then the server's 500.
Surface(path, r) ==
    IF r.exc = "" THEN Answer(200, <<>>)
    ELSE IF r.exc = "NotFoundError" THEN Answer(404, <<>>)
    ELSE IF r.exc \notin {"RateLimitError", "APIError"} THEN Answer(500, <<>>)
    ELSE IF path = "add"
    THEN Answer(IF r.status_code = 0 THEN 500 ELSE r.status_code, <<>>)
    ELSE IF r.exc = "RateLimitError" THEN Answer(429, RetryAfterHeader(r))
    ELSE Answer(IF r.status_code = 0 THEN 500 ELSE r.status_code, <<>>)

\* base.py:122-134 and the handler's exit: the awaited request ends; a
\* parsed result leaves the client to the handler, an exception ends the
\* inbound call.
Respond(t, outcomes) ==
    /\ net.client[t].pc = "await"
    /\ \E o \in outcomes :
         LET r == model_validate(o)
             c == [net.client[t] EXCEPT !.outcome = o, !.result = r]
         IN net' = [net EXCEPT !.client[t] =
                      IF r.exc = "" THEN [c EXCEPT !.pc = "ready"]
                      ELSE [c EXCEPT !.pc = "closed",
                                     !.answer = Surface(c.path, r)]]
    /\ UNCHANGED app

\* The handler returns its response.
Close(t) ==
    /\ net.client[t].pc = "ready" /\ net.client[t].calls > 0
    /\ net' = [net EXCEPT !.client[t].pc = "closed",
                          !.client[t].answer = Surface(net.client[t].path,
                                                       net.client[t].result)]
    /\ UNCHANGED app

\* ------------------------------------------------------------ cover art
\* What a HEAD probe of the Cover Art Archive ends in: a status, or 0 for
\* httpx.RequestError.
ProbeOutcomes == {200, 307, 404, 503, 0}

\* A probe that takes any response for cover art.
_check_cover_art_exists_any(p) == p # 0

\* musicbrainz.py:186-207.
_check_cover_art_exists(p) == p \in {200, 307}

\* musicbrainz.py:209-228: get_validated_cover_art_url is called.
GetValidatedCoverArtUrl(t, release_group_id) ==
    /\ net.client[t].pc = "ready" /\ net.client[t].kind = "musicbrainz"
    /\ net.client[t].cover = NoCover
    /\ net' = [net EXCEPT !.client[t].pc = "probe_release",
                          !.client[t].cover.given = release_group_id]
    /\ UNCHANGED app

\* musicbrainz.py:226-228 and 231: the release URL is probed.
ProbeRelease(t) ==
    /\ net.client[t].pc = "probe_release"
    /\ \E p \in ProbeOutcomes :
         LET c == [net.client[t] EXCEPT
                      !.cover.probes = Append(@, [url |-> "release", got |-> p])]
         IN net' = [net EXCEPT !.client[t] =
                      IF _check_cover_art_exists(p)
                      THEN [c EXCEPT !.cover.url = "release", !.pc = "ready"]
                      ELSE IF c.cover.given
                      THEN [c EXCEPT !.pc = "probe_group"]
                      ELSE [c EXCEPT !.cover.url = "null", !.pc = "ready"]]
    /\ UNCHANGED app

\* musicbrainz.py:231-238: the release-group URL is probed.
ProbeGroup(t) ==
    /\ net.client[t].pc = "probe_group"
    /\ \E p \in ProbeOutcomes :
         LET c == [net.client[t] EXCEPT
                      !.cover.probes = Append(@, [url |-> "release-group",
                                                  got |-> p])]
         IN net' = [net EXCEPT !.client[t] =
                      IF _check_cover_art_exists(p)
                      THEN [c EXCEPT !.cover.url = "release-group", !.pc = "ready"]
                      ELSE [c EXCEPT !.cover.url = "null", !.pc = "ready"]]
    /\ UNCHANGED app

\* ------------------------------------------------------------- requests
FirstPc(op) ==
    IF op \in {"remove_movie", "remove_album"} THEN "validate"
    ELSE IF op \in {"get_movie", "get_album", "movie_credits", "album_credits"}
    THEN "lookup"
    ELSE "select"

\* A request arrives and get_current_active_user (security.py:115-160) lets
\* it through: every modelled user exists and is active.  get_current_week
\* reads the clock and derives the ISO week before its first query
\* (weeks.py:227-230).  At most `par` requests are in flight and `budget`
\* requests are issued in a behaviour; with `snap` the request remembers the
\* committed tables it arrived to.
Arrive(s, c, par, budget, snap) ==
    /\ ~InFlight(s)
    /\ \A t \in Slots : t < s => InFlight(t)
    /\ Cardinality({t \in Slots : InFlight(t)}) < par
    /\ issued < budget
    /\ issued' = issued + 1
    /\ req' = [req EXCEPT ![s] =
                 [Idle EXCEPT !.op = c.op, !.user = c.user, !.wid = c.wid,
                              !.year = IF c.op = "current_week"
                                       THEN IsoYearWeek(now)[1] ELSE c.year,
                              !.wk = IF c.op = "current_week"
                                     THEN IsoYearWeek(now)[2] ELSE c.wk,
                              !.notes = c.notes, !.key = c.key, !.pos = c.pos,
                              !.limit = c.limit,
                              !.stamp = now,
                              !.pc = FirstPc(c.op),
                              !.pre = IF snap THEN db ELSE EmptyTables]]
    /\ UNCHANGED <<db, writer, now, hist, rec, release, film, net>>

\* weeks.py:467-469 / 635-637: the path position is checked first.
RemoveMovieValidate(s) ==
    /\ req[s].op = "remove_movie" /\ req[s].pc = "validate"
    /\ IF req[s].pos \notin {1, 2} THEN Rollback(s, req[s], 400)
       ELSE Goto(s, req[s], "select")

RemoveAlbumValidate(s) ==
    /\ req[s].op = "remove_album" /\ req[s].pc = "validate"
    /\ IF req[s].pos \notin {1, 2} THEN Rollback(s, req[s], 400)
       ELSE Goto(s, req[s], "select")

\* Time passes.
Tick ==
    /\ now < MaxClock
    /\ now' = now + 1
    /\ UNCHANGED <<db, req, writer, issued, hist, rec, release, film, net>>

\* ------------------------------------------------------------ alphabets
CreateCalls ==
    {Call("create_week", u, 0, yw[1], yw[2], n, 0, 0, 0) :
        u \in Users, yw \in YearWeeks, n \in NotesIn}
CurrentCalls == {Call("current_week", u, 0, 0, 0, 0, 0, 0, 0) : u \in Users}
GetWeekCalls == {Call("get_week", u, i, 0, 0, 0, 0, 0, 0) : u \in Users, i \in WeekIds}
UpdateCalls ==
    {Call("update_week", u, i, 0, 0, n, 0, 0, 0) :
        u \in Users, i \in WeekIds, n \in NotesIn}
DeleteCalls == {Call("delete_week", u, i, 0, 0, 0, 0, 0, 0) : u \in Users, i \in WeekIds}
AddMovieCalls ==
    {Call("add_movie", u, i, 0, 0, 0, k, p, 0) :
        u \in Users, i \in WeekIds, k \in TmdbIds, p \in Positions}
AddAlbumCalls ==
    {Call("add_album", u, i, 0, 0, 0, k, p, 0) :
        u \in Users, i \in WeekIds, k \in MbIds, p \in Positions}
RemoveMovieCalls ==
    {Call("remove_movie", u, i, 0, 0, 0, 0, p, 0) :
        u \in Users, i \in WeekIds, p \in PathPositions}
RemoveAlbumCalls ==
    {Call("remove_album", u, i, 0, 0, 0, 0, p, 0) :
        u \in Users, i \in WeekIds, p \in PathPositions}
GetMovieCalls == {Call("get_movie", u, 0, 0, 0, 0, k, 0, 0) : u \in Users, k \in TmdbIds}
GetAlbumCalls == {Call("get_album", u, 0, 0, 0, 0, k, 0, 0) : u \in Users, k \in MbIds}
MovieCreditsCalls ==
    {Call("movie_credits", u, 0, 0, 0, 0, k, 0, n) :
        u \in Users, k \in TmdbIds, n \in Limits}
AlbumCreditsCalls ==
    {Call("album_credits", u, 0, 0, 0, 0, k, 0, n) :
        u \in Users, k \in MbIds, n \in Limits}

\* ----------------------------------------------------------- step groups
CreateSteps(s) == CreateWeekSelect(s) \/ CreateWeekFlush(s)

CurrentSteps(s) ==
    CurrentWeekSelect(s) \/ CurrentWeekLoad(s) \/ CurrentWeekFlush(s)

GetWeekSteps(s) == GetWeekSelect(s) \/ GetWeekLoad(s)

UpdateSteps(s) ==
    UpdateWeekSelect(s) \/ UpdateWeekFlush(s) \/ UpdateWeekRefresh(s)

DeleteSteps(s) ==
    DeleteWeekSelect(s) \/ DeleteWeekCascadeMovies(s) \/ DeleteWeekCascadeAlbums(s)

AddMovieSteps(s) ==
    \/ AddMovieSelectWeek(s) \/ AddMovieOccupied(s) \/ AddMovieLookup(s)
    \/ AddMovieFetch(s) \/ AddMovieFlushMovie(s) \/ AddMovieFlushSlot(s)

AddAlbumSteps(s) ==
    \/ AddAlbumSelectWeek(s) \/ AddAlbumOccupied(s) \/ AddAlbumLookup(s)
    \/ AddAlbumFetch(s) \/ AddAlbumFlushAlbum(s) \/ AddAlbumFlushSlot(s)

RemoveSteps(s) ==
    \/ RemoveMovieValidate(s) \/ RemoveMovieSelectWeek(s) \/ RemoveMovieSlot(s)
    \/ RemoveAlbumValidate(s) \/ RemoveAlbumSelectWeek(s) \/ RemoveAlbumSlot(s)

DetailSteps(s) ==
    \/ GetMovieLookup(s) \/ GetMovieFetch(s)
    \/ GetAlbumLookup(s) \/ GetAlbumFetch(s)

MovieCreditsSteps(s) ==
    \/ MovieCreditsLookup(s) \/ MovieCreditsCachedCast(s)
    \/ MovieCreditsCachedCrew(s) \/ MovieCreditsLoadPeople(s)
    \/ MovieCreditsFetch(s) \/ MovieCreditsFetchMovie(s)
    \/ MovieCreditsFlushMovie(s) \/ MovieCreditsPersonSelect(s)
    \/ MovieCreditsPersonFlush(s)

AlbumCreditsSteps(s) ==
    \/ AlbumCreditsLookup(s) \/ AlbumCreditsCached(s)
    \/ AlbumCreditsLoadArtists(s) \/ AlbumCreditsFetch(s)
    \/ AlbumCreditsFlushAlbum(s) \/ AlbumCreditsArtistSelect(s)
    \/ AlbumCreditsArtistFlush(s)

\* ------------------------------------------------------- specifications
\* The releases MusicBrainz may hold for the key: a full date and the
\* artist credits of ArtistCreditLists.
PlainDate == <<"2", "0", "2", "0", "-", "0", "2", "-", "2", "9">>

PlainReleases == [date : {PlainDate}, credits : ArtistCreditLists]

\* One release, credited to one artist.
OneRelease ==
    [date |-> PlainDate,
     credits |-> <<[name |-> "A", joinphrase |-> None, artist |-> 9]>>]

\* The credits TMDB may hold for the film.
PlainFilms == [cast : CastLists, crew : CrewLists]

\* One film, with one cast member and its director.
OneFilm ==
    [cast |-> <<[id |-> 7, order |-> 0]>>,
     crew |-> <<[id |-> 7, job |-> "Director"]>>]

InitApp(tables, r, releases, films) ==
    /\ release \in releases
    /\ film \in films
    /\ db = tables
    /\ req = [s \in Slots |-> Idle]
    /\ writer = 0
    /\ now = 0
    /\ issued = 0
    /\ hist = <<>>
    /\ rec = r

InitAll(tables, r, releases, films) ==
    InitApp(tables, r, releases, films) /\ net = NoNet

InitOn(tables, r, releases) == InitAll(tables, r, releases, {OneFilm})

InitWith(tables, r) == InitOn(tables, r, {OneRelease})

\* The tables after user 1 created week (2025, 52) at time 0.
OneWeek ==
    [EmptyTables EXCEPT !.weeks =
        {[id |-> 1, user_id |-> 1, year |-> 2025, week_number |-> 52,
          notes |-> 0, created_at |-> 0, updated_at |-> 0]}]

\* Spec: every request of the week aggregate and the detail handlers, one
\* at a time, from empty tables.
SeqCalls ==
    CreateCalls \cup CurrentCalls \cup GetWeekCalls \cup UpdateCalls \cup
    DeleteCalls \cup AddMovieCalls \cup AddAlbumCalls \cup RemoveMovieCalls \cup
    RemoveAlbumCalls \cup GetMovieCalls \cup GetAlbumCalls

Init == InitWith(EmptyTables, FALSE)

Next ==
    \/ \E s \in Slots : \E c \in SeqCalls : Arrive(s, c, 1, MaxRequests, TRUE)
    \/ \E s \in Slots :
          \/ CreateSteps(s) \/ CurrentSteps(s) \/ GetWeekSteps(s)
          \/ UpdateSteps(s) \/ DeleteSteps(s)
          \/ AddMovieSteps(s) \/ AddAlbumSteps(s) \/ RemoveSteps(s)
          \/ DetailSteps(s) \/ Commit(s)
    \/ Tick

Spec == Init /\ [][Next]_vars

\* SpecWeeks: create and get-or-create-current requests of both users, two
\* at a time.
WeekCalls == {c \in CreateCalls : c.notes = 0} \cup CurrentCalls

NextWeeks ==
    \/ \E s \in Slots : \E c \in WeekCalls : Arrive(s, c, 2, MaxRequests, TRUE)
    \/ \E s \in Slots : CreateSteps(s) \/ CurrentSteps(s) \/ Commit(s)
    \/ Tick

SpecWeeks == Init /\ [][NextWeeks]_vars

\* SpecCreate: create and get-or-create-current requests, one at a time.
NextCreate ==
    \/ \E s \in Slots :
          \E c \in CreateCalls \cup CurrentCalls :
             Arrive(s, c, 1, MaxRequests, TRUE)
    \/ \E s \in Slots : CreateSteps(s) \/ CurrentSteps(s) \/ Commit(s)
    \/ Tick

SpecCreate == Init /\ [][NextCreate]_vars

\* SpecSlots: add, remove and delete requests of both users on an existing
\* week, two at a time.
SlotCalls ==
    {c \in AddMovieCalls \cup AddAlbumCalls \cup RemoveMovieCalls \cup
           RemoveAlbumCalls \cup DeleteCalls :
        c.wid = 1 /\ c.pos \in {0} \cup Positions}

InitSlots == InitWith(OneWeek, FALSE)

NextSlots ==
    \/ \E s \in Slots : \E c \in SlotCalls : Arrive(s, c, 2, MaxRequests, FALSE)
    \/ \E s \in Slots :
          \/ AddMovieSteps(s) \/ AddAlbumSteps(s) \/ RemoveSteps(s)
          \/ DeleteSteps(s) \/ Commit(s)

SpecSlots == InitSlots /\ [][NextSlots]_vars

\* SpecOwner: every mutating request on an existing week, by its owner and
\* by another user, one at a time.
OwnerCalls ==
    {c \in AddMovieCalls \cup AddAlbumCalls \cup RemoveMovieCalls \cup
           RemoveAlbumCalls \cup UpdateCalls \cup DeleteCalls : c.wid = 1}

NextOwner ==
    \/ \E s \in Slots : \E c \in OwnerCalls : Arrive(s, c, 1, MaxRequests, TRUE)
    \/ \E s \in Slots :
          \/ AddMovieSteps(s) \/ AddAlbumSteps(s) \/ RemoveSteps(s)
          \/ UpdateSteps(s) \/ DeleteSteps(s) \/ Commit(s)
    \/ Tick

SpecOwner == InitSlots /\ [][NextOwner]_vars

\* SpecCache: the three ways a cache row comes into being (detail, credits,
\* add to a week) and the lookups that follow, one request at a time, user 1
\* working on week 1.
CacheCalls ==
    {c \in GetMovieCalls \cup GetAlbumCalls \cup MovieCreditsCalls \cup
           AlbumCreditsCalls \cup AddMovieCalls \cup AddAlbumCalls :
        c.user = 1 /\ c.wid \in {0, 1}}

NextCache ==
    \/ \E s \in Slots : \E c \in CacheCalls : Arrive(s, c, 1, MaxRequests, TRUE)
    \/ \E s \in Slots :
          \/ DetailSteps(s) \/ MovieCreditsSteps(s) \/ AlbumCreditsSteps(s)
          \/ AddMovieSteps(s) \/ AddAlbumSteps(s) \/ Commit(s)

InitCache == InitAll(OneWeek, FALSE, PlainReleases, PlainFilms)

SpecCache == InitCache /\ [][NextCache]_vars

\* SpecRelease: the three handlers that create a release row (detail,
\* credits, add to a week) and the lookups that follow, one request at a
\* time, for each release MusicBrainz may hold: any date text with no
\* artist credit, or a full date with named credits.
DateStrings ==
    {Null,
     <<"2", "0", "2", "0", "-", "0", "2", "-", "2", "9">>,        \* '2020-02-29'
     <<"2", "0", "2", "1", "-", "1", "2", "-", "3", "1">>,        \* '2021-12-31'
     <<"2", "0", "2", "1", "-", "0", "2", "-", "2", "9">>,        \* '2021-02-29'
     <<"2", "0", "2", "0", "-", "1", "3", "-", "0", "1">>,        \* '2020-13-01'
     <<"2", "0", "2", "0", "-", "0", "0", "-", "1", "0">>,        \* '2020-00-10'
     <<"0", "0", "0", "0", "-", "0", "1", "-", "0", "1">>,        \* '0000-01-01'
     <<"2", "0", "2", "1", "-", "W", "0", "1", "-", "1">>,        \* '2021-W01-1'
     <<"2", "0", "2", "0", "-", "W", "5", "3", "-", "7">>,        \* '2020-W53-7'
     <<"2", "0", "2", "1", "-", "W", "5", "3", "-", "1">>,        \* '2021-W53-1'
     <<"2", "0", "2", "0", "0", "2", "0", "3", "x", "x">>,        \* '20200203xx'
     <<"2", "0", "2", "0", "W", "0", "1", "1", "x", "x">>,        \* '2020W011xx'
     <<"2", "0", "2", "0", "-", "1", "-", "0", "0", "1">>,        \* '2020-1-001'
     <<"2", "0", "2", "0", "/", "0", "2", "/", "0", "3">>,        \* '2020/02/03'
     <<"1", "-", "2", "-", "3", "-", "4", "-", "5", "6">>,        \* '1-2-3-4-56'
     <<"2", "0", "2", "0", "-", "0", "2", "-", "3", " ">>,        \* '2020-02-3 '
     <<"2", "0", "2", "0", "-", "0", "2">>,                       \* '2020-02'
     <<"2", "0", "2", "0", "-", "1", "3">>,                       \* '2020-13'
     <<"2", "0", "2", "0", "-", "+", "2">>,                       \* '2020-+2'
     <<"2", "0", "-", "2", "-", "0", "2">>,                       \* '20-2-02'
     <<"2", "0", "2", "0", "W", "0", "1">>,                       \* '2020W01'
     <<"2", "0", "2", "0", "_", "0", "2">>,                       \* '2020_02'
     <<"0", "0", "0", "0", "-", "0", "1">>,                       \* '0000-01'
     <<"2", "0", "2", "0">>,                                      \* '2020'
     <<"0", "0", "0", "0">>,                                      \* '0000'
     <<"+", "2", "0", "0">>,                                      \* '+200'
     <<"2", "0", "x", "0">>,                                      \* '20x0'
     <<" ", "2", "0", "2">>,                                      \* ' 202'
     <<"2", "_", "2", "0">>,                                      \* '2_20'
     <<"-", "2", "0", "0">>,                                      \* '-200'
     <<>>,                                                        \* ''
     <<"2", "0", "2", "0", "-", "2">>,                            \* '2020-2'
     <<"2", "0", "2", "0", "0", "2", "0", "3">>,                  \* '20200203'
     <<"2", "0", "2", "0", "-", "0", "2", "-", "0", "3", "T">>}   \* '2020-02-03T'

NamedCreditLists ==
    SeqsUpTo({[name |-> n, joinphrase |-> j, artist |-> 9] :
                 n \in {"A", "B"}, j \in {None, " & "}}, MaxCredits)

ReleaseCatalog ==
    [date : DateStrings, credits : {<<>>}] \cup
    [date : {PlainDate}, credits : NamedCreditLists]

ReleaseCalls ==
    {Call("get_album", 1, 0, 0, 0, 0, 77, 0, 0),
     Call("album_credits", 1, 0, 0, 0, 0, 77, 0, 1),
     Call("add_album", 1, 1, 0, 0, 0, 77, 1, 0)}

InitRelease == InitOn(OneWeek, FALSE, ReleaseCatalog)

NextRelease ==
    \/ \E s \in Slots : \E c \in ReleaseCalls : Arrive(s, c, 1, MaxRequests, TRUE)
    \/ \E s \in Slots :
          \/ GetAlbumLookup(s) \/ GetAlbumFetch(s) \/ AlbumCreditsSteps(s)
          \/ AddAlbumSteps(s) \/ Commit(s)

SpecRelease == InitRelease /\ [][NextRelease]_vars

\* SpecResolve: detail requests for one film and one release, one at a time,
\* with the completed requests logged in `hist`.
ResolveRequests == 2

ResolveCalls ==
    {Call("get_movie", 1, 0, 0, 0, 0, 550, 0, 0),
     Call("get_album", 1, 0, 0, 0, 0, 77, 0, 0)}

InitResolve == InitOn(EmptyTables, TRUE, ReleaseCatalog)

NextResolve ==
    \/ \E s \in Slots :
          \E c \in ResolveCalls : Arrive(s, c, 1, ResolveRequests, FALSE)
    \/ \E s \in Slots : DetailSteps(s) \/ Commit(s)

SpecResolve == InitResolve /\ [][NextResolve]_vars

\* SpecWriteOnce: user 1's requests that write anything (adds, removes,
\* update and delete of week 1, detail and credits lookups), one at a time.
WriteOnceCalls ==
    {c \in AddMovieCalls \cup AddAlbumCalls \cup RemoveMovieCalls \cup
           RemoveAlbumCalls \cup UpdateCalls \cup DeleteCalls \cup
           GetMovieCalls \cup GetAlbumCalls \cup MovieCreditsCalls \cup
           AlbumCreditsCalls :
        /\ c.user = 1 /\ c.wid \in {0, 1} /\ c.pos \in {0, 1}
        /\ c.limit \in {0, 1} /\ c.notes \in {0, 1} /\ (c.op = "update_week" => c.notes = 1)}

NextWriteOnce ==
    \/ \E s \in Slots :
          \E c \in WriteOnceCalls : Arrive(s, c, 1, MaxRequests, TRUE)
    \/ \E s \in Slots :
          \/ AddMovieSteps(s) \/ AddAlbumSteps(s) \/ RemoveSteps(s)
          \/ UpdateSteps(s) \/ DeleteSteps(s) \/ DetailSteps(s)
          \/ MovieCreditsSteps(s) \/ AlbumCreditsSteps(s) \/ Commit(s)

SpecWriteOnce == InitSlots /\ [][NextWriteOnce]_vars

\* SpecFirstFetch: user 1's requests that resolve film 550 (detail, credits,
\* add to week 1 at either position), two at a time.
FirstFetchCalls ==
    {c \in GetMovieCalls \cup MovieCreditsCalls \cup AddMovieCalls :
        c.user = 1 /\ c.wid \in {0, 1} /\ c.limit \in {0, 1}}

NextFirstFetch ==
    \/ \E s \in Slots :
          \E c \in FirstFetchCalls : Arrive(s, c, 2, MaxRequests, TRUE)
    \/ \E s \in Slots :
          \/ GetMovieLookup(s) \/ GetMovieFetch(s) \/ MovieCreditsSteps(s)
          \/ AddMovieSteps(s) \/ Commit(s)

SpecFirstFetch == InitSlots /\ [][NextFirstFetch]_vars

\* SpecCredits: credits requests for film 550 and release 77 with limits 1
\* and 2, one at a time, with the completed requests logged in `hist`, for
\* each credit list upstream may hold: cast whose `order` values agree or
\* disagree with their position, crew in and outside the key jobs, artist
\* credits with and without an artist object.
CreditsRequests == 2
CreditsLen == 2                 \* entries per upstream credit list

CastCatalog ==
    SeqsUpTo({[id |-> 7, order |-> 1], [id |-> 8, order |-> 0]}, CreditsLen)

CrewCatalog ==
    SeqsUpTo({[id |-> 7, job |-> "Director"], [id |-> 8, job |-> "Gaffer"]},
             CreditsLen)

\* A film with more credits than either limit reaches, its first crew
\* entry outside the key jobs.
FullFilm ==
    [cast |-> <<[id |-> 7, order |-> 1], [id |-> 8, order |-> 0]>>,
     crew |-> <<[id |-> 8, job |-> "Gaffer"], [id |-> 7, job |-> "Director"],
                [id |-> 8, job |-> "Producer"]>>]

\* Either list varies while the other is OneFilm's.
FilmCatalog ==
    [cast : CastCatalog, crew : {OneFilm.crew}] \cup
    [cast : {OneFilm.cast}, crew : CrewCatalog] \cup {FullFilm}

CreditedReleases ==
    [date : {PlainDate},
     credits : SeqsUpTo({[name |-> "A", joinphrase |-> None, artist |-> a] :
                            a \in ArtistIds \cup {0}}, CreditsLen)]

CreditsCalls ==
    {c \in MovieCreditsCalls \cup AlbumCreditsCalls : c.user = 1}

InitCredits ==
    \/ InitAll(EmptyTables, TRUE, {OneRelease}, FilmCatalog)
    \/ InitAll(EmptyTables, TRUE, CreditedReleases, {OneFilm})

NextCredits ==
    \/ \E s \in Slots :
          \E c \in CreditsCalls : Arrive(s, c, 1, CreditsRequests, TRUE)
    \/ \E s \in Slots :
          MovieCreditsSteps(s) \/ AlbumCreditsSteps(s) \/ Commit(s)

SpecCredits == InitCredits /\ [][NextCredits]_vars

\* SpecDedup: credits requests for two films and two releases, one at a
\* time, logged in `hist`.  Upstream credits both films to the same people
\* and both releases to the same artists.
DedupRequests == 2

DedupCalls ==
    {Call("movie_credits", 1, 0, 0, 0, 0, k, 0, 2) : k \in {550, 551}} \cup
    {Call("album_credits", 1, 0, 0, 0, 0, k, 0, 2) : k \in {77, 78}}

\* A release credited twice to the same artist.
TwiceCredited ==
    [date |-> PlainDate,
     credits |-> <<[name |-> "A", joinphrase |-> " & ", artist |-> 9],
                   [name |-> "A", joinphrase |-> None, artist |-> 9]>>]

InitDedup ==
    \/ InitAll(EmptyTables, TRUE, {OneRelease}, {OneFilm, FullFilm})
    \/ InitAll(EmptyTables, TRUE, {TwiceCredited}, {OneFilm})

NextDedup ==
    \/ \E s \in Slots :
          \E c \in DedupCalls : Arrive(s, c, 1, DedupRequests, TRUE)
    \/ \E s \in Slots :
          MovieCreditsSteps(s) \/ AlbumCreditsSteps(s) \/ Commit(s)

SpecDedup == InitDedup /\ [][NextDedup]_vars

\* SpecClients: two inbound calls, each with the client its dependency
\* made, awaiting up to MaxCalls upstream requests while the event-loop
\* clock runs.
PlainOutcomes ==
    Responses({200, 404}, {Null}, {"object"}) \cup {Upstream("timeout", 0, Null, "")}

InitClients ==
    /\ InitApp(EmptyTables, FALSE, {OneRelease}, {OneFilm})
    /\ net \in {[NoNet EXCEPT !.time = t0] : t0 \in 0..1}

NextClients ==
    \/ \E t \in Tasks, kind \in ClientKinds : GetClient(t, kind, "detail")
    \/ \E t \in Tasks :
          \/ Get(t) \/ WaitForRateLimit(t) \/ AfterSleep(t)
          \/ Respond(t, {Upstream("response", 200, Null, "object")})
          \/ Close(t)
    \/ LoopTick

SpecClients == InitClients /\ [][NextClients]_vars

\* SpecOneClient: one inbound call whose client awaits up to MaxCalls
\* upstream requests and a cover-art validation, one after another, while
\* the event-loop clock runs.
NextOneClient ==
    \/ \E kind \in ClientKinds : GetClient(1, kind, "detail")
    \/ Get(1) \/ WaitForRateLimit(1) \/ AfterSleep(1)
    \/ Respond(1, PlainOutcomes) \/ Close(1)
    \/ \E g \in BOOLEAN : GetValidatedCoverArtUrl(1, g)
    \/ ProbeRelease(1) \/ ProbeGroup(1)
    \/ LoopTick

SpecOneClient == InitClients /\ [][NextOneClient]_vars

\* SpecTaxonomy: one inbound call on any path, with the client of either
\* catalogue, whose upstream request ends in any status, Retry-After header
\* and body, in a timeout or in a transport error.
AnyOutcomes == Responses(Statuses, RetryAfterValues, Bodies) \cup Failures

NextTaxonomy ==
    \/ \E kind \in ClientKinds, path \in Paths : GetClient(1, kind, path)
    \/ Get(1) \/ WaitForRateLimit(1) \/ AfterSleep(1)
    \/ Respond(1, AnyOutcomes) \/ Close(1)
    \/ LoopTick

SpecTaxonomy == InitClients /\ [][NextTaxonomy]_vars

\* SpecAtomic: user 1 adds films 550 and 551 to week 1, asks for film
\* 550's credits and deletes the week, two requests at a time.
AtomicRequests == 3

AtomicCalls ==
    {Call("add_movie", 1, 1, 0, 0, 0, k, p, 0) : k \in {550, 551}, p \in Positions}
    \cup {Call("movie_credits", 1, 0, 0, 0, 0, 550, 0, 1),
          Call("delete_week", 1, 1, 0, 0, 0, 0, 0, 0)}

NextAtomic ==
    \/ \E s \in Slots :
          \E c \in AtomicCalls : Arrive(s, c, 2, AtomicRequests, FALSE)
    \/ \E s \in Slots :
          \/ AddMovieSteps(s) \/ MovieCreditsSteps(s) \/ DeleteSteps(s)
          \/ Commit(s)

SpecAtomic == InitAll(OneWeek, FALSE, {OneRelease}, {OneFilm}) /\ [][NextAtomic]_vars

\* The tables after user 1 also added film 550 at both positions and release
\* 77 at position 1 of the week, all at time 0.
FullWeek ==
    [OneWeek EXCEPT
        !.movies = {[id |-> 1, tmdb_id |-> 550, cached_at |-> 0]},
        !.albums = {[id |-> 1, musicbrainz_id |-> 77, artist |-> "Unknown Artist",
                     release_date |-> [y |-> 2020, m |-> 2, d |-> 29],
                     cached_at |-> 0]},
        !.week_movies = {[id |-> p, week_id |-> 1, movie_id |-> 1,
                          position |-> p, added_at |-> 0] : p \in {1, 2}},
        !.week_albums = {[id |-> 1, week_id |-> 1, album_id |-> 1,
                          position |-> 1, added_at |-> 0]}]

\* SpecRemove: removals by either user, on the filled week and on a week id
\* that does not exist, one at a time.
RemoveRequests == 2

NextRemove ==
    \/ \E s \in Slots :
          \E c \in RemoveMovieCalls \cup RemoveAlbumCalls :
             Arrive(s, c, 1, RemoveRequests, TRUE)
    \/ \E s \in Slots : RemoveSteps(s) \/ Commit(s)
    \/ Tick

SpecRemove == InitWith(FullWeek, FALSE) /\ [][NextRemove]_vars

\* SpecUpdate: PATCH requests by either user with notes absent (0) or one of
\* two texts, on the filled week and on a week id that does not exist, one
\* at a time.
UpdateRequests == 2
NoteTexts == {1, 2}

NextUpdate ==
    \/ \E s \in Slots :
          \E u \in Users, i \in WeekIds, n \in {0} \cup NoteTexts :
             Arrive(s, Call("update_week", u, i, 0, 0, n, 0, 0, 0),
                    1, UpdateRequests, TRUE)
    \/ \E s \in Slots : UpdateSteps(s) \/ Commit(s)
    \/ Tick

SpecUpdate == InitWith(FullWeek, FALSE) /\ [][NextUpdate]_vars

\* SpecLifecycle: the filled week is deleted, created again, read and
\* changed by either user, one request at a time, the completed requests
\* logged in `hist`.
LifecycleRequests == 3

LifecycleCalls ==
    {c \in DeleteCalls \cup GetWeekCalls \cup UpdateCalls \cup AddMovieCalls
           \cup RemoveMovieCalls \cup RemoveAlbumCalls :
        c.wid = 1 /\ c.pos \in {0, 1} /\ c.notes \in {0, 1}}
    \cup {c \in CreateCalls : c.year = 2025 /\ c.notes = 0}

NextLifecycle ==
    \/ \E s \in Slots :
          \E c \in LifecycleCalls : Arrive(s, c, 1, LifecycleRequests, TRUE)
    \/ \E s \in Slots :
          \/ DeleteSteps(s) \/ CreateSteps(s) \/ GetWeekSteps(s)
          \/ UpdateSteps(s) \/ RemoveSteps(s)
          \/ AddMovieSelectWeek(s) \/ AddMovieOccupied(s) \/ AddMovieLookup(s)
          \/ AddMovieFlushSlot(s) \/ Commit(s)

SpecLifecycle == InitWith(FullWeek, TRUE) /\ [][NextLifecycle]_vars

\* SpecRegister: registrations whose usernames and addresses differ in
\* case only, or not at all, or altogether, one at a time, from no account.
RegisterRequests == 2

Usernames == {<<"a", "l", "i">>, <<"A", "l", "i">>, <<"b", "o", "b">>}
Emails == {<<"a", "@", "x">>, <<"A", "@", "x">>, <<"a", "@", "X">>,
           <<"b", "@", "x">>}

NextRegister ==
    \/ \E s \in Slots : \E u \in Usernames, e \in Emails :
          RegisterArrive(s, u, e, 1, RegisterRequests, TRUE)
    \/ \E s \in Slots : RegisterSteps(s) \/ Commit(s)

SpecRegister == InitWith(EmptyTables, TRUE) /\ [][NextRegister]_vars

\* SpecOrder: both users add films 550 and 551 and releases 77 and 78 to
\* weeks 1 and 2, one request at a time, while only week 1 exists.
OrderRequests == 3

OrderCalls ==
    {Call("add_movie", u, i, 0, 0, 0, k, p, 0) :
        u \in Users, i \in WeekIds, k \in {550, 551}, p \in Positions}
    \cup {Call("add_album", u, i, 0, 0, 0, k, p, 0) :
             u \in Users, i \in WeekIds, k \in {77, 78}, p \in Positions}

NextOrder ==
    \/ \E s \in Slots : \E c \in OrderCalls : Arrive(s, c, 1, OrderRequests, TRUE)
    \/ \E s \in Slots : AddMovieSteps(s) \/ AddAlbumSteps(s) \/ Commit(s)

SpecOrder == InitWith(OneWeek, FALSE) /\ [][NextOrder]_vars

\* The tables the nullable weeks.user_id column allows (migration
\* b2c3d4e5f6g7): week 1 for (2025, 52) has no owner (user_id NULL, written
\* 0), with film 550 at position 1; week 2 for (2026, 1) belongs to user 1.
UnclaimedWeek ==
    [EmptyTables EXCEPT
        !.weeks = {[id |-> 1, user_id |-> 0, year |-> 2025, week_number |-> 52,
                    notes |-> 0, created_at |-> 0, updated_at |-> 0],
                   [id |-> 2, user_id |-> 1, year |-> 2026, week_number |-> 1,
                    notes |-> 0, created_at |-> 0, updated_at |-> 0]},
        !.movies = {[id |-> 1, tmdb_id |-> 550, cached_at |-> 0]},
        !.week_movies = {[id |-> 1, week_id |-> 1, movie_id |-> 1,
                          position |-> 1, added_at |-> 0]}]

\* SpecUnclaimed: both users send every mutating request to the ownerless
\* week 1 and to user 1's week 2, one at a time.
UnclaimedRequests == 2

UnclaimedCalls ==
    {Call("add_movie", u, i, 0, 0, 0, k, p, 0) :
        u \in Users, i \in WeekIds, k \in {550, 551}, p \in Positions}
    \cup AddAlbumCalls \cup RemoveMovieCalls \cup RemoveAlbumCalls
    \cup UpdateCalls \cup DeleteCalls

NextUnclaimed ==
    \/ \E s \in Slots :
          \E c \in UnclaimedCalls : Arrive(s, c, 1, UnclaimedRequests, TRUE)
    \/ \E s \in Slots :
          \/ AddMovieSteps(s) \/ AddAlbumSteps(s) \/ RemoveSteps(s)
          \/ UpdateSteps(s) \/ DeleteSteps(s) \/ Commit(s)

SpecUnclaimed == InitWith(UnclaimedWeek, FALSE) /\ [][NextUnclaimed]_vars

\* SpecOwnership: create, get-or-create-current, update, delete and add-film
\* requests of both users, one at a time, from empty tables.
OwnershipRequests == 3

OwnershipCalls ==
    CreateCalls \cup CurrentCalls \cup UpdateCalls \cup DeleteCalls \cup
    {c \in AddMovieCalls : c.pos = 1}

NextOwnership ==
    \/ \E s \in Slots :
          \E c \in OwnershipCalls : Arrive(s, c, 1, OwnershipRequests, TRUE)
    \/ \E s \in Slots :
          \/ CreateSteps(s) \/ CurrentSteps(s) \/ UpdateSteps(s)
          \/ DeleteSteps(s) \/ AddMovieSteps(s) \/ Commit(s)
    \/ Tick

SpecOwnership == Init /\ [][NextOwnership]_vars

\* The tables after user 1 created weeks (2025, 52) and (2026, 1).
TwoWeeks ==
    [EmptyTables EXCEPT !.weeks =
        {[id |-> 1, user_id |-> 1, year |-> 2025, week_number |-> 52,
          notes |-> 0, created_at |-> 0, updated_at |-> 0],
         [id |-> 2, user_id |-> 1, year |-> 2026, week_number |-> 1,
          notes |-> 0, created_at |-> 0, updated_at |-> 0]}]

\* SpecShared: user 1 adds film 550 to and removes films from both positions
\* of weeks 1 and 2, and adds and removes release 77 on week 1, one request
\* at a time.
SharedRequests == 4

SharedCalls ==
    {c \in AddMovieCalls \cup RemoveMovieCalls :
        c.user = 1 /\ c.pos \in Positions}
    \cup {c \in AddAlbumCalls \cup RemoveAlbumCalls :
             c.user = 1 /\ c.wid = 1 /\ c.pos \in Positions}

NextShared ==
    \/ \E s \in Slots : \E c \in SharedCalls : Arrive(s, c, 1, SharedRequests, TRUE)
    \/ \E s \in Slots :
          AddMovieSteps(s) \/ AddAlbumSteps(s) \/ RemoveSteps(s) \/ Commit(s)

SpecShared == InitWith(TwoWeeks, FALSE) /\ [][NextShared]_vars

\* SpecStamps: user 1 adds film 550 to week 1, removes films from it and
\* edits its notes, two requests at a time, while the clock runs.
StampRequests == 3

StampCalls ==
    {c \in AddMovieCalls \cup RemoveMovieCalls :
        c.user = 1 /\ c.wid = 1 /\ c.pos \in Positions}
    \cup {c \in UpdateCalls : c.user = 1 /\ c.wid = 1}

NextStamps ==
    \/ \E s \in Slots : \E c \in StampCalls : Arrive(s, c, 2, StampRequests, FALSE)
    \/ \E s \in Slots :
          \/ AddMovieSteps(s) \/ RemoveMovieValidate(s)
          \/ RemoveMovieSelectWeek(s) \/ RemoveMovieSlot(s)
          \/ UpdateSteps(s) \/ Commit(s)
    \/ Tick

SpecStamps == InitWith(OneWeek, FALSE) /\ [][NextStamps]_vars

\* SpecParent: user 1 asks for the credits and the details of film 550 and
\* release 77 and adds them to week 1, one request at a time, the completed
\* requests logged in `hist`.
ParentRequests == 2

ParentCalls ==
    {c \in MovieCreditsCalls \cup AlbumCreditsCalls \cup GetMovieCalls
           \cup GetAlbumCalls \cup AddMovieCalls \cup AddAlbumCalls :
        c.user = 1 /\ c.wid \in {0, 1} /\ c.pos \in {0, 1} /\ c.limit \in {0, 1}}

NextParent ==
    \/ \E s \in Slots :
          \E c \in ParentCalls : Arrive(s, c, 1, ParentRequests, TRUE)
    \/ \E s \in Slots :
          \/ DetailSteps(s) \/ MovieCreditsSteps(s) \/ AlbumCreditsSteps(s)
          \/ AddMovieSteps(s) \/ AddAlbumSteps(s) \/ Commit(s)

SpecParent == InitAll(OneWeek, TRUE, {OneRelease}, {OneFilm}) /\ [][NextParent]_vars

\* SpecE2E: the acceptance scenario's requests, one at a time, with the
\* completed requests logged in `hist`.
E2ERequests == 5

E2ECalls ==
    {Call("create_week", 1, 0, 2025, 3, 0, 0, 0, 0),
     Call("add_movie", 2, 1, 0, 0, 0, 550, 1, 0),
     Call("add_movie", 1, 1, 0, 0, 0, 550, 1, 0),
     Call("get_week", 1, 1, 0, 0, 0, 0, 0, 0)}

InitE2E == InitWith(EmptyTables, TRUE)

NextE2E ==
    \/ \E s \in Slots : \E c \in E2ECalls : Arrive(s, c, 1, E2ERequests, FALSE)
    \/ \E s \in Slots :
          CreateSteps(s) \/ AddMovieSteps(s) \/ GetWeekSteps(s) \/ Commit(s)

SpecE2E == InitE2E /\ [][NextE2E]_vars

\* ================================================================ claims
Done(s) == req[s].pc = "done"

AddOps == {"add_movie", "add_album"}
RemoveOps == {"remove_movie", "remove_album"}
OwnedOps == AddOps \cup RemoveOps \cup {"update_week", "delete_week"}

SlotTable(op) ==
    IF op \in {"add_movie", "remove_movie"} THEN "week_movies" ELSE "week_albums"

\* The week a request addressed, as committed when the request arrived.
PreWeek(r) == {w \in r.pre.weeks : w.id = r.wid}

\* The request got as far as INSERTing its slot row.
ReachedSlotInsert(r) ==
    \/ r.status = 201
    \/ r.exc = "IntegrityError(week_movies)" /\ r.op = "add_movie"
    \/ r.exc = "IntegrityError(week_albums)" /\ r.op = "add_album"

\* The request got as far as INSERTing its week row.
ReachedWeekInsert(r) == r.status = 201 \/ r.exc = "IntegrityError(weeks)"

\* C1 (SpecSlots). Slot exclusivity: in every reachable state, whatever the
\* interleaving of add, remove and delete requests, each (week, kind,
\* position) has at most one slot row and every slot row has position 1 or 2.
SlotExclusivity ==
    \A t \in {"week_movies", "week_albums"} :
       \A x \in db[t] :
          /\ x.position \in {1, 2}
          /\ \A y \in db[t] :
                (y.week_id = x.week_id /\ y.position = x.position) => y = x

\* A film slot is stored and a racing insert for a taken position was refused.
SlotExclusivityWitness ==
    /\ db.week_movies # {}
    /\ \E s \in Slots :
          Done(s) /\ req[s].exc = "IntegrityError(week_movies)"

\* C2 (SpecOwner). An owner's add for a position already occupied for that kind,
\* with no other request in flight, answers 409 without an upstream call and
\* leaves every table (slots, cache rows, the week's updated_at) as it was.
OccupiedAddIsConflict ==
    \A s \in Slots :
       LET r == req[s]
       IN (/\ Done(s) /\ r.op \in AddOps
           /\ \E w \in PreWeek(r) : w.user_id = r.user
           /\ \E x \in r.pre[SlotTable(r.op)] :
                 x.week_id = r.wid /\ x.position = r.pos)
          => (r.status = 409 /\ r.calls = 0 /\ db = r.pre)

OccupiedAddWitness ==
    \E s \in Slots :
       LET r == req[s]
       IN /\ Done(s) /\ r.op = "add_album" /\ r.status = 409
          /\ \E x \in r.pre.week_albums :
                x.week_id = r.wid /\ x.position = r.pos

\* C3 (SpecSlots). Two adds for the same (week, kind, position) that both
\* passed the occupancy pre-check and went on to insert: one creates the slot
\* (201) and the other answers 409.
RacingAddSlotsResolved ==
    \A s, t \in Slots :
       LET a == req[s]
           b == req[t]
       IN (/\ s # t /\ Done(s) /\ Done(t)
           /\ a.op \in AddOps /\ b.op = a.op /\ b.wid = a.wid /\ b.pos = a.pos
           /\ ReachedSlotInsert(a) /\ ReachedSlotInsert(b))
          => \/ a.status = 201 /\ b.status = 409
             \/ a.status = 409 /\ b.status = 201

\* C4 (SpecWeeks). Week global uniqueness: whatever the interleaving of
\* create and get-or-create-current requests of any users, at most one week
\* row exists per (year, week_number).
WeekGlobalUniqueness ==
    \A x, y \in db.weeks :
       (x.year = y.year /\ x.week_number = y.week_number) => x = y

\* Two different users raced for one pair: one row is stored, the other
\* user's insert was refused.
WeekGlobalUniquenessWitness ==
    \E s \in Slots : \E w \in db.weeks :
       /\ Done(s) /\ req[s].exc = "IntegrityError(weeks)"
       /\ w.year = req[s].year /\ w.week_number = req[s].wk
       /\ w.user_id # req[s].user

\* C5 (SpecCreate). create for a pair that already has a week answers 409 naming
\* the existing owner's username and changes nothing; for a free pair it
\* answers 201 and adds exactly one week, owned by the requester, with
\* created_at = updated_at.
CreateConflictOrCreate ==
    \A s \in Slots :
       LET r == req[s]
           old == {w \in r.pre.weeks : w.year = r.year /\ w.week_number = r.wk}
       IN (Done(s) /\ r.op = "create_week")
          => /\ \A w \in old :
                   /\ r.status = 409
                   /\ r.resp.owner = Username(w.user_id)
                   /\ db = r.pre
             /\ old = {} =>
                   /\ r.status = 201
                   /\ \E w \in db.weeks :
                         /\ w.year = r.year /\ w.week_number = r.wk
                         /\ w.user_id = r.user
                         /\ w.created_at = w.updated_at
                         /\ db = [r.pre EXCEPT !.weeks = @ \cup {w}]

\* A user asked for a pair that another user's week holds.
CreateConflictWitness ==
    \E s \in Slots :
       LET r == req[s]
       IN /\ Done(s) /\ r.op = "create_week" /\ r.status = 409
          /\ \E w \in r.pre.weeks :
                /\ w.year = r.year /\ w.week_number = r.wk
                /\ w.user_id # r.user
                /\ r.resp.owner = Username(w.user_id)

\* C6 (SpecWeeks). Two creates for the same pair that both passed the
\* existence check and went on to insert: one answers 201, the other 409.
RacingCreatesResolved ==
    \A s, t \in Slots :
       LET a == req[s]
           b == req[t]
       IN (/\ s # t /\ Done(s) /\ Done(t)
           /\ a.op = "create_week" /\ b.op = "create_week"
           /\ a.year = b.year /\ a.wk = b.wk
           /\ ReachedWeekInsert(a) /\ ReachedWeekInsert(b))
          => \/ a.status = 201 /\ b.status = 409
             \/ a.status = 409 /\ b.status = 201

\* C7 (SpecWeeks). Two get-or-create-current requests that both arrived while
\* the current ISO week had no row: both answer 200 with the same week.
RacingCurrentAllSucceed ==
    \A s, t \in Slots :
       LET a == req[s]
           b == req[t]
       IN (/\ s # t /\ Done(s) /\ Done(t)
           /\ a.op = "current_week" /\ b.op = "current_week"
           /\ a.year = b.year /\ a.wk = b.wk
           /\ ~DupYearWeek(a.pre.weeks, a.year, a.wk)
           /\ ~DupYearWeek(b.pre.weeks, b.year, b.wk))
          => /\ a.status = 200 /\ b.status = 200
             /\ a.week = b.week /\ a.week \in db.weeks

\* C8 (SpecOwner), as worded: on a week owned by someone else, add, remove,
\* update and delete answer 403 and change nothing, without an upstream call;
\* the owner never gets 403.
OwnershipEnforcedAsWorded ==
    \A s \in Slots :
       LET r == req[s]
       IN (Done(s) /\ r.op \in OwnedOps)
          => \A w \in PreWeek(r) :
                /\ (w.user_id # r.user) =>
                      (r.status = 403 /\ r.calls = 0 /\ db = r.pre)
                /\ (w.user_id = r.user) => r.status # 403

\* C8 (SpecOwner), amended: as above for add, update, delete and for remove with
\* a position in {1, 2}; a remove with any other position answers 400,
\* whoever asks, and also changes nothing.
OwnershipEnforced ==
    \A s \in Slots :
       LET r == req[s]
           badPos == r.op \in RemoveOps /\ r.pos \notin {1, 2}
       IN (Done(s) /\ r.op \in OwnedOps)
          => \A w \in PreWeek(r) :
                /\ (w.user_id # r.user) =>
                      /\ r.status = IF badPos THEN 400 ELSE 403
                      /\ r.calls = 0 /\ db = r.pre
                /\ (w.user_id = r.user) => r.status # 403

\* A non-owner tried to remove a slot that exists and got 403.
OwnershipWitness ==
    \E s \in Slots :
       LET r == req[s]
       IN /\ Done(s) /\ r.op = "remove_movie" /\ r.status = 403
          /\ \E x \in db.week_movies : x.week_id = r.wid /\ x.position = r.pos

\* C9 (SpecE2E). The acceptance scenario, run in order from empty tables:
\* create (2025, 3) by user 1 answers 201 with user 1 as owner; add film 550
\* at position 1 by user 2 answers 403; the same add by user 1 makes exactly
\* one upstream call and, when upstream answers, returns 201 with one new
\* cache row; repeating it answers 409; the week then reads back with the
\* film at position 1 and nothing at position 2.
Scenario ==
    <<[op |-> "create_week", user |-> 1], [op |-> "add_movie", user |-> 2],
      [op |-> "add_movie", user |-> 1], [op |-> "add_movie", user |-> 1],
      [op |-> "get_week", user |-> 1]>>

Played(n) ==
    /\ Len(hist) >= n
    /\ \A i \in 1..n :
          hist[i].op = Scenario[i].op /\ hist[i].user = Scenario[i].user
    /\ n >= 3 => hist[3].up = 200

EndToEnd ==
    /\ Played(1) => hist[1].status = 201 /\ hist[1].resp.owner = Username(1)
    /\ Played(2) =>
          /\ hist[2].status = 403 /\ hist[2].calls = 0
          /\ Len(hist) = 2 => db.movies = {}
    /\ (Played(2) /\ Len(hist) >= 3 /\ hist[3].op = "add_movie"
          /\ hist[3].user = 1) => hist[3].calls = 1
    /\ Played(3) =>
          /\ hist[3].status = 201
          /\ \E m \in db.movies : m.tmdb_id = 550 /\ db.movies = {m}
    /\ Played(4) => hist[4].status = 409 /\ hist[4].calls = 0
    /\ Played(5) =>
          /\ hist[5].status = 200
          /\ hist[5].resp.owner = Username(1)
          /\ \E m \in db.movies :
                hist[5].resp.movies = {[position |-> 1, ent |-> m.id]}
          /\ hist[5].resp.albums = {}

EndToEndWitness == Played(5) /\ hist[5].status = 200

\* C10 (SpecCache). A cache hit never calls upstream: when the film (release)
\* row for the requested key is stored, whichever of detail, credits or add
\* stored it, the detail handler and the add handlers make no upstream call
\* and the detail handler answers 200 with cached = true; cached = false is
\* answered only when the row was absent.
Cached(r) ==
    IF r.op \in {"get_movie", "add_movie"}
    THEN \E m \in r.pre.movies : m.tmdb_id = r.key
    ELSE \E a \in r.pre.albums : a.musicbrainz_id = r.key

CacheHitNoUpstream ==
    \A s \in Slots :
       LET r == req[s]
       IN /\ (Done(s) /\ r.op \in {"get_movie", "get_album"} \cup AddOps
                 /\ Cached(r))
             => /\ r.calls = 0
                /\ r.op \in {"get_movie", "get_album"} =>
                      (r.status = 200 /\ r.resp.cached = 1)
          /\ (Done(s) /\ r.op \in {"get_movie", "get_album"}
                 /\ r.resp.cached = 0) => ~Cached(r)

\* The second request of a behaviour is a detail request that hits the film
\* row the first one, a credits request, stored together with its cast.
CacheHitWitness ==
    \E s \in Slots :
       LET r == req[s]
       IN /\ Done(s) /\ r.op = "get_movie" /\ Cached(r)
          /\ issued = 2 /\ r.pre.movie_cast # {}
          /\ r.resp.cached = 1 /\ r.calls = 0

\* The cache rows stored for the key of a detail request.
RowsFor(e) ==
    IF e.op = "get_movie" THEN {m \in db.movies : m.tmdb_id = e.key}
    ELSE {a \in db.albums : a.musicbrainz_id = e.key}

\* C11 (SpecResolve). Idempotent resolve: when the same key is resolved
\* twice in a row through the detail endpoint, the second request after the
\* first has committed with 200, upstream is called at most once in total,
\* exactly one cache row exists for the key, and the second response carries
\* the same artist display name and release date as the first.
IdempotentResolve ==
    (/\ Len(hist) >= 2
     /\ hist[1].op = hist[2].op /\ hist[1].key = hist[2].key
     /\ hist[1].status = 200)
    => /\ hist[1].calls + hist[2].calls <= 1
       /\ Cardinality(RowsFor(hist[2])) = 1
       /\ hist[2].status = 200
       /\ hist[2].resp.artist = hist[1].resp.artist
       /\ hist[2].resp.release_date = hist[1].resp.release_date

CacheTables == {"movies", "albums", "people", "artists"}

\* C12 (SpecWriteOnce). Cache rows are write-once: no step of any request
\* changes or removes a stored film, release, person or artist row; every
\* such row is found unchanged in the next state, so the row counts never
\* decrease.
CacheRowsWriteOnce ==
    [][\A t \in CacheTables : db[t] \subseteq db'[t]]_vars

\* A week that held a film was deleted, and the film's cache row is still
\* stored.
CacheRowsWriteOnceWitness ==
    \E s \in Slots :
       LET r == req[s]
       IN /\ Done(s) /\ r.op = "delete_week" /\ r.committed
          /\ \E x \in r.pre.week_movies :
                x.week_id = r.wid /\ \E m \in db.movies : m.id = x.movie_id
          /\ db.weeks = {} /\ db.week_movies = {}

FilmOps == {"get_movie", "movie_credits", "add_movie"}

\* C13 (SpecFirstFetch). Two requests for the same uncached film that both
\* missed the lookup and both got the film from upstream (two adds aiming at
\* different positions): both complete successfully, neither with a storage
\* uniqueness error, and exactly one row for the key is stored.
RacingFirstFetchResolved ==
    \A s, t \in Slots :
       LET a == req[s]
           b == req[t]
       IN (/\ s # t /\ Done(s) /\ Done(t)
           /\ a.op \in FilmOps /\ b.op \in FilmOps /\ a.key = b.key
           /\ ~Cached([a EXCEPT !.op = "get_movie"])
           /\ ~Cached([b EXCEPT !.op = "get_movie"])
           /\ a.calls > 0 /\ a.up = 200 /\ b.calls > 0 /\ b.up = 200
           /\ (a.op = "add_movie" /\ b.op = "add_movie") => a.pos # b.pos)
          => /\ a.status \in {200, 201} /\ b.status \in {200, 201}
             /\ a.exc = "" /\ b.exc = ""
             /\ Cardinality({m \in db.movies : m.tmdb_id = a.key}) = 1

\* The year-month-day reading of a date text: four digits, and after a dash
\* two digits each for the month and the day where the text has them.
Shaped(q, dashes) ==
    /\ \A i \in 1..Len(q) : IF i \in dashes THEN q[i] = "-" ELSE IsDigit(q[i])

Calendar(y, m, d) ==
    IF y >= 1 /\ m \in 1..12 /\ d \in 1..DaysInMonth(y, m)
    THEN [y |-> y, m |-> m, d |-> d]
    ELSE NoDate

\* The date the parsing policy assigns to a text.
PolicyDate(q) ==
    IF ~Txt(q) THEN NoDate
    ELSE IF Len(q) = 10 /\ Shaped(q, {5, 8})
    THEN Calendar(DigitsAt(q, 1, 4), DigitsAt(q, 6, 2), DigitsAt(q, 9, 2))
    ELSE IF Len(q) = 7 /\ Shaped(q, {5})
    THEN Calendar(DigitsAt(q, 1, 4), DigitsAt(q, 6, 2), 1)
    ELSE IF Len(q) = 4 /\ Shaped(q, {})
    THEN Calendar(DigitsAt(q, 1, 4), 1, 1)
    ELSE NoDate

\* The request found no release row for its key and stored one.
CreatedRelease(r) ==
    /\ r.pc = "done" /\ r.committed /\ ~Cached(r)
    /\ \E a \in db.albums : a.musicbrainz_id = r.key

\* C14 (SpecRelease). Music date parsing: the release date the detail and
\* credits handlers store for an upstream date text is that exact date for a
\* 10-character year-month-day text, the first of the month for a
\* 7-character year-month text, January 1st for a 4-character year text, and
\* null for every other input (null, empty, any other length, no valid
\* calendar date); the request never fails on the date.
DateParsingPolicy ==
    \A s \in Slots :
       LET r == req[s]
       IN (r.op \in {"get_album", "album_credits"} /\ CreatedRelease(r))
          => \A a \in db.albums : a.release_date = PolicyDate(release.date)

\* C15 (SpecRelease). Music date parsing is symmetric across code paths: for
\* every upstream date text, the release date that add-to-week stores when
\* it creates the release row is the one the detail and credits handlers
\* store for that text.
DateParsingSymmetric ==
    \A s \in Slots :
       LET r == req[s]
       IN (r.op = "add_album" /\ CreatedRelease(r))
          => \A a \in db.albums :
                a.release_date = _parse_musicbrainz_date(release.date)

\* The display name of an artist credit: the names joined by their join
\* phrases, or the sentinel for no credit.
DisplayName(credits) ==
    IF credits = <<>> THEN "Unknown Artist" ELSE Joined(credits)

\* C16 (SpecRelease). Whenever the detail endpoint, the credits endpoint or
\* add-to-week misses the cache and upstream answers with the release, a
\* release row is created whose artist is the display name of the artist
\* credit in that answer ("Unknown Artist" for none), the same on all three
\* paths.
ArtistStoredAsDisplayName ==
    \A s \in Slots :
       LET r == req[s]
       IN (/\ Done(s) /\ r.op \in {"get_album", "album_credits", "add_album"}
           /\ ~Cached(r) /\ r.calls > 0 /\ r.up = 200)
          => /\ r.committed
             /\ \E a \in db.albums :
                   /\ a.musicbrainz_id = r.key
                   /\ a.artist = DisplayName(r.body.artists)

\* The association rows stored for the key of a credits request when it
\* arrived, and the person or artist a row points at.
CreditsOps == {"movie_credits", "album_credits"}

FilmOf(r) == {m.id : m \in {x \in r.pre.movies : x.tmdb_id = r.key}}
ReleaseOf(r) == {a.id : a \in {x \in r.pre.albums : x.musicbrainz_id = r.key}}

StoredCast(r) == {x \in r.pre.movie_cast : x.movie_id \in FilmOf(r)}
StoredCrew(r) == {x \in r.pre.movie_crew : x.movie_id \in FilmOf(r)}
StoredArtists(r) == {x \in r.pre.album_artists : x.album_id \in ReleaseOf(r)}

HasStoredCredits(r) ==
    IF r.op = "movie_credits" THEN StoredCast(r) \cup StoredCrew(r) # {}
    ELSE StoredArtists(r) # {}

PersonKey(r, row) == (CHOOSE x \in r.pre.people : x.id = row.person_id).tmdb_id
ArtistKey(r, row) ==
    (CHOOSE x \in r.pre.artists : x.id = row.artist_id).musicbrainz_id

Smaller(a, b) == IF a < b THEN a ELSE b

\* f picks Len(list) distinct rows out of `rows`, as many as the limit allows.
Picks(f, list, rows, limit) ==
    /\ Len(list) = Smaller(limit, Cardinality(rows))
    /\ \A i, j \in DOMAIN list : f[i] = f[j] => i = j

\* f picks the rows with the lowest order values, in order.
Lowest(f, list, rows) ==
    /\ \A i, j \in DOMAIN list : i < j => f[i].order <= f[j].order
    /\ \A i \in DOMAIN list :
          \A x \in rows \ {f[k] : k \in DOMAIN list} : f[i].order <= x.order

\* C17 (SpecCredits). A credits request for a film (release) that already
\* has a stored cast or crew (artist) row answers 200 with the stored rows
\* joined with their person (artist) rows, the cast and the artists by
\* order value, at most `limit` per list, calls upstream not at all and
\* leaves every table as it found it.
CachedCreditsServed ==
    \A s \in Slots :
       LET r == req[s]
       IN (Done(s) /\ r.op \in CreditsOps /\ HasStoredCredits(r))
          => /\ r.status = 200 /\ r.calls = 0 /\ db = r.pre
             /\ r.op = "movie_credits" =>
                  /\ \E f \in [DOMAIN r.resp.cast -> StoredCast(r)] :
                        /\ Picks(f, r.resp.cast, StoredCast(r), r.limit)
                        /\ Lowest(f, r.resp.cast, StoredCast(r))
                        /\ \A i \in DOMAIN r.resp.cast :
                              r.resp.cast[i] = [id |-> PersonKey(r, f[i]),
                                                order |-> f[i].order]
                  /\ \E f \in [DOMAIN r.resp.crew -> StoredCrew(r)] :
                        /\ Picks(f, r.resp.crew, StoredCrew(r), r.limit)
                        /\ \A i \in DOMAIN r.resp.crew :
                              r.resp.crew[i] = [id |-> PersonKey(r, f[i]),
                                                job |-> f[i].job]
             /\ r.op = "album_credits" =>
                  \E f \in [DOMAIN r.resp.artists -> StoredArtists(r)] :
                     /\ Picks(f, r.resp.artists, StoredArtists(r), r.limit)
                     /\ Lowest(f, r.resp.artists, StoredArtists(r))
                     /\ \A i \in DOMAIN r.resp.artists :
                           r.resp.artists[i] = [id |-> ArtistKey(r, f[i]),
                                                order |-> f[i].order]

\* A credits request with limit 1 for a film whose two cast rows and crew
\* row an earlier request stored: it answered one of each.
CachedCreditsWitness ==
    \E s \in Slots :
       LET r == req[s]
       IN /\ Done(s) /\ r.op = "movie_credits" /\ r.limit = 1
          /\ Cardinality(StoredCast(r)) = 2 /\ StoredCrew(r) # {}
          /\ r.status = 200 /\ r.calls = 0
          /\ Len(r.resp.cast) = 1 /\ Len(r.resp.crew) = 1

\* The association rows of film m and of release a in tables d.
FilmCredits(d, m) ==
    [cast |-> {x \in d.movie_cast : x.movie_id = m},
     crew |-> {x \in d.movie_crew : x.movie_id = m}]

ReleaseCredits(d, a) == {x \in d.album_artists : x.album_id = a}

NowCast(r) ==
    {x \in db.movie_cast : \E m \in db.movies : m.tmdb_id = r.key /\ x.movie_id = m.id}
NowCrew(r) ==
    {x \in db.movie_crew : \E m \in db.movies : m.tmdb_id = r.key /\ x.movie_id = m.id}
NowArtists(r) ==
    {x \in db.album_artists :
        \E a \in db.albums : a.musicbrainz_id = r.key /\ x.album_id = a.id}

\* A step leaves the credits of every entity that has any as they are.
FrozenStep ==
    /\ \A m \in Ids(db.movies) :
          FilmCredits(db, m).cast \cup FilmCredits(db, m).crew # {}
             => FilmCredits(db', m) = FilmCredits(db, m)
    /\ \A a \in Ids(db.albums) :
          ReleaseCredits(db, a) # {} => ReleaseCredits(db', a) = ReleaseCredits(db, a)

\* The request that found no credits stored at most `limit` per list; the
\* request that found some answered no more than were stored.
WithinFirstLimit ==
    \A s \in Slots :
       LET r == req[s]
       IN (Done(s) /\ r.op \in CreditsOps /\ r.status = 200)
          => IF HasStoredCredits(r)
             THEN /\ Len(r.resp.cast) <= Cardinality(StoredCast(r))
                  /\ Len(r.resp.crew) <= Cardinality(StoredCrew(r))
                  /\ Len(r.resp.artists) <= Cardinality(StoredArtists(r))
             ELSE /\ r.op = "movie_credits" =>
                        /\ Cardinality(NowCast(r)) <= r.limit
                        /\ Cardinality(NowCrew(r)) <= r.limit
                  /\ r.op = "album_credits" =>
                        Cardinality(NowArtists(r)) <= r.limit

\* C18 (SpecCredits). Credits are frozen by the first request that stores
\* any: once a film (release) has a stored cast or crew (artist) row, no
\* later credits request adds, removes or changes a credit row of it; the
\* storing request leaves at most its `limit` rows per list, and a later
\* request, whatever its limit, answers no more rows than are stored.
CreditsFrozen == []WithinFirstLimit /\ [][FrozenStep]_vars

\* Upstream lists two cast members; the first request, with limit 1, stored
\* one, and the second, with limit 2, was answered that one.
CreditsFrozenWitness ==
    /\ Len(hist) = 2 /\ Len(film.cast) = 2
    /\ hist[1].op = "movie_credits" /\ hist[2].op = "movie_credits"
    /\ hist[1].limit = 1 /\ hist[1].status = 200 /\ hist[1].calls > 0
    /\ hist[2].limit = 2 /\ hist[2].status = 200 /\ hist[2].calls = 0
    /\ Len(hist[2].resp.cast) = 1 /\ Cardinality(db.movie_cast) = 1

\* The request found no credits stored for its key, stored what upstream
\* gave it and committed.
StoredOnMiss(s) ==
    /\ Done(s) /\ req[s].op \in CreditsOps /\ req[s].status = 200
    /\ req[s].committed /\ req[s].calls > 0 /\ ~HasStoredCredits(req[s])

NowPersonKey(row) == (CHOOSE x \in db.people : x.id = row.person_id).tmdb_id
NowArtistKey(row) ==
    (CHOOSE x \in db.artists : x.id = row.artist_id).musicbrainz_id

\* The upstream credits within the limit that survive: every cast member,
\* every artist credit that carries an artist object.
SurvivingCast(r) == SubSeq(r.body.cast, 1, Smaller(r.limit, Len(r.body.cast)))
SurvivingArtists(r) ==
    SelectSeq(SubSeq(r.body.artists, 1, Smaller(r.limit, Len(r.body.artists))),
              LAMBDA c : c.artist # 0)

\* C19 (SpecCredits). Credit order: after a credits request stored the
\* credits of a film (release) on a miss, the k-th surviving upstream cast
\* member (artist credit) has a row with order value k - 1, so the order
\* values are 0, 1, ..., n-1 in upstream position, whatever order values
\* upstream sent and whichever credits lacked an artist record.
CreditOrderZeroBased ==
    \A s \in Slots :
       LET r == req[s]
       IN StoredOnMiss(s)
          => /\ r.op = "movie_credits" =>
                  LET rows == ById(NowCast(r))
                  IN /\ Len(rows) = Len(SurvivingCast(r))
                     /\ \A i \in DOMAIN rows :
                           /\ rows[i].order = i - 1
                           /\ NowPersonKey(rows[i]) = SurvivingCast(r)[i].id
             /\ r.op = "album_credits" =>
                  LET rows == ById(NowArtists(r))
                  IN /\ Len(rows) = Len(SurvivingArtists(r))
                     /\ \A i \in DOMAIN rows :
                           /\ rows[i].order = i - 1
                           /\ NowArtistKey(rows[i]) = SurvivingArtists(r)[i].artist

\* The jobs a crew credit is kept for.
AllowList ==
    {"Director", "Writer", "Screenplay", "Composer", "Producer", "Cinematography"}

FirstN(q, n) == SubSeq(q, 1, Smaller(n, Len(q)))

AllowedCrew(r) == SelectSeq(r.body.crew, LAMBDA c : c.job \in AllowList)

\* C20 (SpecCredits). Crew filtering and truncation: every stored crew row
\* has a job of the allow-list; after a film credits request stored credits
\* on a miss, the stored and the returned cast are the first `limit` entries
\* of the upstream cast, unfiltered, and the stored and the returned crew
\* are the first `limit` entries of the upstream crew once the entries
\* outside the allow-list are dropped, each list cut independently.
CrewFilteredAndTruncated ==
    /\ \A x \in db.movie_crew : x.job \in AllowList
    /\ \A s \in Slots :
          LET r == req[s]
              cast == ById(NowCast(r))
              crew == ById(NowCrew(r))
          IN (StoredOnMiss(s) /\ r.op = "movie_credits")
             => /\ r.resp.cast = FirstN(r.body.cast, r.limit)
                /\ r.resp.crew = FirstN(AllowedCrew(r), r.limit)
                /\ Len(cast) = Len(r.resp.cast)
                /\ \A i \in DOMAIN cast :
                      NowPersonKey(cast[i]) = r.resp.cast[i].id
                /\ Len(crew) = Len(r.resp.crew)
                /\ \A i \in DOMAIN crew :
                      /\ NowPersonKey(crew[i]) = r.resp.crew[i].id
                      /\ crew[i].job = r.resp.crew[i].job

\* A limit-1 request stored FullFilm's credits: the first of two cast
\* members and the director, who follows a gaffer and precedes a producer.
CrewFilteredWitness ==
    \E s \in Slots :
       LET r == req[s]
       IN /\ StoredOnMiss(s) /\ r.op = "movie_credits" /\ r.limit = 1
          /\ r.body = [EmptyBody EXCEPT !.cast = FullFilm.cast,
                                        !.crew = FullFilm.crew]
          /\ Cardinality(db.movie_cast) = 1 /\ Cardinality(db.movie_crew) = 1
          /\ r.resp.crew = <<[id |-> 7, job |-> "Director"]>>
          /\ r.resp.cast = <<[id |-> 7, order |-> 1]>>

\* C21 (SpecDedup). Credit dedup: with credits requests handled one after
\* another, no request fails in storage, there is at most one people row
\* per TMDB person id and one artists row per MusicBrainz artist id, and
\* every cast, crew and album-artist row points at an existing people or
\* artists row; a person credited in two films, or as cast and crew of one
\* film, has one people row.
CreditDedup ==
    /\ \A s \in Slots : Done(s) => req[s].exc = ""
    /\ \A p, q \in db.people : p.tmdb_id = q.tmdb_id => p = q
    /\ \A a, b \in db.artists : a.musicbrainz_id = b.musicbrainz_id => a = b
    /\ \A x \in db.movie_cast \cup db.movie_crew : x.person_id \in Ids(db.people)
    /\ \A x \in db.album_artists : x.artist_id \in Ids(db.artists)

\* Two films' credits are stored; person 7 is cast in both and crew in both
\* and has one people row.
CreditDedupWitness ==
    /\ Cardinality(db.movies) = 2
    /\ \E p \in db.people :
          /\ p.tmdb_id = 7
          /\ \A q \in db.people : q.tmdb_id = 7 => q = p
          /\ \A m \in db.movies :
                /\ \E x \in db.movie_cast :
                      x.movie_id = m.id /\ x.person_id = p.id
                /\ \E x \in db.movie_crew :
                      x.movie_id = m.id /\ x.person_id = p.id
    /\ \A i \in DOMAIN hist : hist[i].status = 200

\* C22 (SpecClients). Music-catalog rate limit under concurrency: any two
\* requests the service sends to the MusicBrainz API, whichever inbound
\* calls they belong to, are sent at least one second apart.
MusicRequestsSpaced ==
    \A i, j \in DOMAIN net.sent :
       (i < j /\ net.sent[i].api = "musicbrainz" /\ net.sent[j].api = "musicbrainz")
          => net.sent[j].at - net.sent[i].at >= 1 * Second

\* The requests task t's client has sent, oldest first.
SentBy(t) == SelectSeq(net.sent, LAMBDA m : m.task = t)

\* C23 (SpecOneClient). Rate-limit spacing on one client: the requests one
\* MusicBrainz client sends, awaited one after another, are at least one
\* second (rate_limit_delay) apart, and its last-request clock is the send
\* time of its latest request; a TMDB client never sleeps and its clock
\* stays where __init__ put it.
SpacedOnOneClient ==
    \A t \in Tasks :
       LET c == net.client[t]
           mine == SentBy(t)
       IN /\ c.kind = "musicbrainz" =>
               /\ \A i \in 1..(Len(mine) - 1) :
                     mine[i + 1].at - mine[i].at >= 1 * Second
               /\ mine # <<>> => c.last_request_time = mine[Len(mine)].at
          /\ c.kind = "tmdb" =>
               ~c.slept /\ c.pc # "sleep" /\ c.last_request_time = 0

\* A MusicBrainz client sent its second request right when its sleep ended,
\* one second after the first.
SpacedOnOneClientWitness ==
    \E t \in Tasks :
       /\ net.client[t].kind = "musicbrainz" /\ net.client[t].pc = "await"
       /\ Len(SentBy(t)) = 2
       /\ SentBy(t)[1].at > 0
       /\ SentBy(t)[2].at = SentBy(t)[1].at + 1 * Second
       /\ net.client[t].wake = net.time

\* The upstream outcome of task t's latest client call, once it has one.
Ended(t) == net.client[t].outcome # NoOutcome

\* C24 (SpecTaxonomy). Upstream error taxonomy is total: whatever upstream
\* does with a search or detail request, the client call returns a parsed
\* result or raises NotFoundError (for 404), RateLimitError (for 429, with
\* the Retry-After seconds when given) or APIError (with the status code
\* when there is one), and nothing else.
TaxonomyTotal ==
    \A t \in Tasks :
       LET c == net.client[t]
           o == c.outcome
           r == c.result
       IN (Ended(t) /\ c.path \in {"search", "detail"}) =>
            \/ r = NoResult
            \/ r.exc = "NotFoundError" /\ o.status = 404
            \/ /\ r.exc = "RateLimitError" /\ o.status = 429 /\ r.status_code = 429
               /\ IsInt(o.retry_after) => r.retry_after = <<IntOf(o.retry_after)>>
            \/ r.exc = "APIError" /\ r.status_code \in {0, o.status}

\* The seconds of an upstream Retry-After header, <<>> without one.
Hint(o) == IF IsInt(o.retry_after) THEN <<IntOf(o.retry_after)>> ELSE <<>>

\* C25 (SpecTaxonomy). Upstream errors reach the boundary with one stable
\* category on every path: an upstream 404 is answered 404, an upstream 429
\* is answered 429 with the Retry-After seconds upstream gave, any other
\* upstream error status is answered with that status, and a timeout, a
\* transport error or an unreadable body is answered 500.
BoundaryCategory ==
    \A t \in Tasks :
       LET c == net.client[t]
           o == c.outcome
       IN (Ended(t) /\ c.pc = "closed") =>
            /\ o.status = 404 => c.answer = Answer(404, <<>>)
            /\ o.status = 429 => c.answer = Answer(429, Hint(o))
            /\ (o.status >= 400 /\ o.status \notin {404, 429})
                  => c.answer = Answer(o.status, <<>>)
            /\ (o.kind \in {"timeout", "error"} \/ (o.status < 400 /\ o.body = "text"))
                  => c.answer = Answer(500, <<>>)

\* A probe found cover art: status 200 or 307.
Found(probe) == probe.got = 200 \/ probe.got = 307

\* During a cover-art validation the client sends no API request, does not
\* sleep and leaves its last-request clock alone.
ProbesBypassLimiter ==
    \A t \in Tasks :
       net.client[t].pc \in {"probe_release", "probe_group"} =>
          /\ net'.sent = net.sent
          /\ net'.client[t].last_request_time = net.client[t].last_request_time
          /\ net'.client[t].pc \in {"probe_release", "probe_group", "ready"}

CoverArtReturned ==
    \A t \in Tasks :
       LET c == net.client[t]
           v == c.cover
           n == Len(v.probes)
       IN /\ n <= 2
          /\ n >= 1 => v.probes[1].url = "release"
          /\ n = 2 => /\ v.probes[2].url = "release-group"
                      /\ ~Found(v.probes[1]) /\ v.given
          /\ v.url = "release" <=> (n = 1 /\ Found(v.probes[1]))
          /\ v.url = "release-group" <=> (n = 2 /\ Found(v.probes[2]))
          /\ v.url = "null" <=>
                \/ n = 1 /\ ~Found(v.probes[1]) /\ ~v.given
                \/ n = 2 /\ ~Found(v.probes[2])
          /\ v.url = "pending" <=> (n = 0 \/ c.pc = "probe_group")

\* C30 (SpecOneClient). Validated cover art: get_validated_cover_art_url
\* returns the release URL iff its probe answers 200 or 307; otherwise the
\* release-group URL iff a release-group id was given and its probe answers
\* 200 or 307; otherwise None.  The release group is probed only after the
\* release probe failed, at most two probes are made, a transport error
\* counts as absent, and the probes neither wait on nor move the client's
\* rate-limit clock.
ValidatedCoverArt == []CoverArtReturned /\ [][ProbesBypassLimiter]_vars

\* After an API request of its own, the client found no cover art for the
\* release (a transport error) and returned the release group's.
ValidatedCoverArtWitness ==
    \E t \in Tasks :
       LET c == net.client[t]
       IN /\ c.pc = "ready" /\ SentBy(t) # <<>>
          /\ c.last_request_time = SentBy(t)[Len(SentBy(t))].at
          /\ c.cover.url = "release-group"
          /\ Len(c.cover.probes) = 2 /\ c.cover.probes[1].got = 0
          /\ c.cover.probes[2].got = 307

\* Request r's flushed and pending rows of table t that it did not delete
\* again, without their ids.
Written(r, t) ==
    {[x EXCEPT !.id = 0] :
        x \in {y \in r.ins[t] \cup r.add[t] : y.id \notin Ids(r.del[t])}}

\* Every row request s wrote is stored and every row it deleted is gone.
AllStored(s) ==
    \A t \in DOMAIN EmptyTables :
       /\ Written(req[s], t) \subseteq {[x EXCEPT !.id = 0] : x \in db'[t]}
       /\ Ids(req[s].del[t]) \cap Ids(db'[t]) = {}

\* A step that ends request s: a request that failed, or whose commit
\* failed, leaves storage as it was; one whose transaction committed has
\* all of its writes stored in this one step.
EndsAtomically(s) ==
    IF req'[s].status >= 400 \/ ~req'[s].committed THEN db' = db
    ELSE AllStored(s)

AtomicStep ==
    /\ \A s \in Slots : (InFlight(s) /\ req'[s].pc = "done") => EndsAtomically(s)
    /\ db' # db =>
          \E s \in Slots :
             /\ InFlight(s) /\ req'[s].pc = "done"
             /\ req'[s].status < 400 /\ req'[s].committed

\* C26 (SpecAtomic). Request atomicity: storage changes only in the step
\* that ends a request whose transaction commits, and then all of the
\* request's rows are stored at once; a request that ends in an error,
\* whatever it had flushed before, leaves storage as it was.
RequestAtomicity == [][AtomicStep]_vars

\* A request that had fetched and inserted its film failed on the slot
\* row: it ended 500, and the film it had inserted is not stored.
RequestAtomicityWitness ==
    \E s \in Slots :
       /\ req[s].op = "add_movie" /\ req[s].pc = "done"
       /\ req[s].status = 500 /\ req[s].exc = "IntegrityError(week_movies)"
       /\ req[s].calls = 1 /\ req[s].ent # 0
       /\ \A m \in db.movies : m.tmdb_id # req[s].key
       /\ db.week_movies # {}

\* The slot rows of the request's kind at its week and position, as stored
\* when it arrived.
PreSlot(r) ==
    {x \in r.pre[SlotTable(r.op)] : x.week_id = r.wid /\ x.position = r.pos}

\* The status removeSlot's checks give, in their order.
RemoveStatus(r) ==
    IF r.pos \notin {1, 2} THEN 400
    ELSE IF PreWeek(r) = {} THEN 404
    ELSE IF \E w \in PreWeek(r) : w.user_id # r.user THEN 403
    ELSE IF PreSlot(r) = {} THEN 404
    ELSE 204

\* Storage after a removal: the slot is gone and the week differs in
\* updated_at only, which is not before the request's arrival.
RemovedFrom(r) ==
    /\ \A t \in DOMAIN EmptyTables \ {"weeks", SlotTable(r.op)} : db'[t] = r.pre[t]
    /\ db'[SlotTable(r.op)] = r.pre[SlotTable(r.op)] \ PreSlot(r)
    /\ Cardinality(PreSlot(r)) = 1
    /\ {w \in db'.weeks : w.id # r.wid} = {w \in r.pre.weeks : w.id # r.wid}
    /\ \E w \in PreWeek(r), v \in db'.weeks :
          /\ v = [w EXCEPT !.updated_at = v.updated_at]
          /\ v.updated_at >= r.stamp /\ v.updated_at <= now'

RemoveEnds(s) ==
    LET r == req[s]
    IN /\ req'[s].status = RemoveStatus(r)
       /\ IF req'[s].status = 204 THEN RemovedFrom(r) ELSE db' = r.pre

\* C27 (SpecRemove). removeSlot checks in this order: a position outside
\* {1,2} gives 400 before any lookup, an absent week 404, a requester who is
\* not the owner 403, an empty position 404; otherwise it deletes exactly
\* the slot of that kind at that position and bumps the week's updated_at,
\* leaving the other position, the other kind's slots and the cache rows as
\* they were; a rejected call changes nothing.
RemoveSlotOrderAndFrame ==
    [][\A s \in Slots :
          (InFlight(s) /\ req'[s].pc = "done" /\ req[s].op \in RemoveOps)
             => RemoveEnds(s)]_vars

\* A film slot was removed from a week that held films at both positions
\* and an album, after the clock had moved: the other film, the album and
\* the cached rows stayed and the week's updated_at moved.
RemoveSlotWitness ==
    \E s \in Slots :
       LET r == req[s]
       IN /\ r.op = "remove_movie" /\ r.pc = "done" /\ r.status = 204
          /\ r.pre = FullWeek
          /\ db.week_albums = FullWeek.week_albums
          /\ db.movies = FullWeek.movies /\ db.albums = FullWeek.albums
          /\ Cardinality(db.week_movies) = 1
          /\ \E x \in db.week_movies : x.position # r.pos
          /\ \E w \in db.weeks : w.id = 1 /\ w.updated_at > 0

\* Storage after the owner's update: with notes given, the week differs in
\* notes and updated_at only; with notes absent or null nothing differs.
UpdatedFrom(r) ==
    IF r.notes = 0 THEN db' = r.pre
    ELSE /\ \A t \in DOMAIN EmptyTables \ {"weeks"} : db'[t] = r.pre[t]
         /\ {w \in db'.weeks : w.id # r.wid} = {w \in r.pre.weeks : w.id # r.wid}
         /\ \E w \in PreWeek(r), v \in db'.weeks :
               /\ v = [w EXCEPT !.notes = r.notes, !.updated_at = v.updated_at]
               /\ v.updated_at >= r.stamp /\ v.updated_at <= now'

\* C28 (SpecUpdate). update by the owner with non-null notes sets notes to
\* the given value and bumps updated_at; with notes absent or null it leaves
\* notes and updated_at as they were, so notes cannot be cleared through
\* update; year, week number, owner, created_at and the slots never change.
UpdateSetsNotesOnly ==
    [][\A s \in Slots :
          (/\ InFlight(s) /\ req'[s].pc = "done" /\ req[s].op = "update_week"
           /\ \E w \in PreWeek(req[s]) : w.user_id = req[s].user)
             => (req'[s].status = 200 /\ UpdatedFrom(req[s]))]_vars

\* The owner sent null against notes that an earlier update had set at
\* time 1: notes, updated_at and the slots stayed.
UpdateWitness ==
    /\ \E s \in Slots :
          LET r == req[s]
          IN /\ r.op = "update_week" /\ r.pc = "done" /\ r.status = 200
             /\ r.notes = 0
             /\ \E w \in PreWeek(r) : w.notes = 1 /\ w.updated_at = 1
    /\ \E w \in db.weeks : w.id = 1 /\ w.notes = 1 /\ w.updated_at = 1
    /\ now = 1
    /\ db.week_movies = FullWeek.week_movies

\* The operations addressed to a week id.
WeekIdOps == OwnedOps \cup {"get_week"}

\* C29 (SpecLifecycle). Week lifecycle: once its owner has deleted a week,
\* every later get, update, delete, addSlot or removeSlot addressed to that
\* week id returns 404, also after a week for the same (year, week_number)
\* has been created again.
DeletedWeekStaysGone ==
    \A i, j \in DOMAIN hist :
       (/\ i < j
        /\ hist[i].op = "delete_week" /\ hist[i].status = 204
        /\ hist[j].op \in WeekIdOps /\ hist[j].wid = hist[i].wid)
          => hist[j].status = 404

\* C31 (SpecRegister). Account identity uniqueness: in every reachable state
\* no two accounts share a case-folded username or a case-folded email.
AccountIdentityUnique ==
    \A u, v \in db.users :
       u # v => /\ CaseFold(u.username) # CaseFold(v.username)
                /\ CaseFold(u.email) # CaseFold(v.email)

\* The rows of table t request s has written so far, flushed or pending.
Wrote(s, t) == req[s].ins[t] \cup req[s].add[t]

\* Row x's reference `id` points at a flushed or committed row of table t.
Refers(s, id, t) == id # 0 /\ \E p \in View(s, t) : p.id = id

ParentsFlushed(s) ==
    /\ \A x \in Wrote(s, "movie_cast") \cup Wrote(s, "movie_crew") :
          Refers(s, x.movie_id, "movies") /\ Refers(s, x.person_id, "people")
    /\ \A x \in Wrote(s, "album_artists") :
          Refers(s, x.album_id, "albums") /\ Refers(s, x.artist_id, "artists")
    /\ \A x \in Wrote(s, "week_movies") : Refers(s, x.movie_id, "movies")
    /\ \A x \in Wrote(s, "week_albums") : Refers(s, x.album_id, "albums")

DetailOf(op) == IF op = "movie_credits" THEN "get_movie" ELSE "get_album"

\* C32 (SpecParent). Parent before dependents: whenever a request holds a
\* credit row or a slot row, flushed or still pending, the film or release
\* and the person or artist it references have been flushed and have their
\* ids; and after a successful credits request, a later detail request for
\* the same key is answered from the cache.
ParentBeforeDependents ==
    /\ \A s \in Slots : ParentsFlushed(s)
    /\ \A i, j \in DOMAIN hist :
          (/\ i < j
           /\ hist[i].op \in CreditsOps /\ hist[i].status = 200
           /\ hist[j].op = DetailOf(hist[i].op) /\ hist[j].key = hist[i].key)
             => (hist[j].status = 200 /\ hist[j].calls = 0)

\* Credits were resolved for a film that was not cached (two upstream
\* calls, film and person stored with the credit rows), and the detail
\* request after it made no upstream call.
ParentBeforeDependentsWitness ==
    /\ Len(hist) = 2
    /\ hist[1].op = "movie_credits" /\ hist[1].status = 200 /\ hist[1].calls = 2
    /\ hist[2].op = "get_movie" /\ hist[2].status = 200 /\ hist[2].calls = 0
    /\ \E m \in db.movies, p \in db.people, x \in db.movie_cast :
          x.movie_id = m.id /\ x.person_id = p.id

\* C33 (SpecAtomic). Referential integrity under interleaving: in every
\* reachable state every slot row references an existing week and an
\* existing cached film or release, also when a delete of the week and an
\* add to it overlap.
SlotsReferToLiveRows ==
    /\ \A x \in db.week_movies :
          /\ \E w \in db.weeks : w.id = x.week_id
          /\ \E m \in db.movies : m.id = x.movie_id
    /\ \A x \in db.week_albums :
          /\ \E w \in db.weeks : w.id = x.week_id
          /\ \E a \in db.albums : a.id = x.album_id

\* The status with which addSlot's checks reject the request, in their
\* order; 0 when they all pass.
AddRejection(r) ==
    IF PreWeek(r) = {} THEN 404
    ELSE IF \E w \in PreWeek(r) : w.user_id # r.user THEN 403
    ELSE IF PreSlot(r) # {} THEN 409
    ELSE 0

\* The entity the request names has a cache row in the tables it arrived to.
PreCached(r) ==
    IF r.op = "add_movie" THEN \E m \in r.pre.movies : m.tmdb_id = r.key
    ELSE \E a \in r.pre.albums : a.musicbrainz_id = r.key

AddEnds(s) ==
    LET r == req[s]
        e == req'[s]
    IN IF AddRejection(r) # 0
       THEN e.status = AddRejection(r) /\ e.calls = 0 /\ db' = r.pre
       ELSE IF PreCached(r) THEN e.status = 201 /\ e.calls = 0
       ELSE e.calls = 1 /\ e.status \in {201, 404, 429, 503, 500}

\* C34 (SpecOrder). addSlot checks in this order: an absent week gives 404,
\* a requester who is not the owner 403, an occupied position 409, and only
\* then is the entity resolved; a request rejected for one of these three
\* reasons makes no upstream call and leaves storage as it was, and a
\* non-owner aiming at an occupied position gets 403.
AddSlotCheckOrder ==
    [][\A s \in Slots :
          (InFlight(s) /\ req'[s].pc = "done" /\ req[s].op \in AddOps)
             => AddEnds(s)]_vars

\* Requests were rejected before any upstream call although their film was
\* not cached: a non-owner aiming at an occupied position got 403, and the
\* owner aiming at it got 409.
AddSlotCheckOrderWitness ==
    /\ \E s \in Slots :
          LET r == req[s]
          IN /\ r.op = "add_movie" /\ r.pc = "done" /\ r.key = 551
             /\ PreSlot(r) # {} /\ ~PreCached(r)
             /\ r.calls = 0 /\ db = r.pre
             /\ \/ r.user = 2 /\ r.status = 403
                \/ r.user = 1 /\ r.status = 409
    /\ \E x \in db.week_movies : x.week_id = 1

CreatedBy(s, v) ==
    /\ InFlight(s) /\ req'[s].pc = "done" /\ req'[s].committed
    /\ req[s].op \in {"create_week", "current_week"}
    /\ v.user_id = req[s].user
    /\ v.year = req[s].year /\ v.week_number = req[s].wk

OwnerStep ==
    /\ \A v \in db'.weeks : v.user_id \in Users
    /\ \A w \in db.weeks, v \in db'.weeks :
          v.id = w.id => /\ v.user_id = w.user_id
                         /\ v.year = w.year
                         /\ v.week_number = w.week_number
    /\ \A v \in db'.weeks :
          (\A w \in db.weeks : w.id # v.id) => \E s \in Slots : CreatedBy(s, v)

\* C36 (SpecOwnership). Owner is fixed at creation: a week enters storage
\* only through a create or get-or-create-current request and then has the
\* requester as owner; no later step by any user changes its owner, year or
\* week number; and no stored week is without an owner.
OwnerFixedAtCreation == [][OwnerStep]_vars

\* User 2 asked for the current week, which exists with user 1 as owner
\* and with notes: the answer was 200 and the week is still user 1's.
OwnerFixedAtCreationWitness ==
    /\ \E s \in Slots :
          LET r == req[s]
          IN /\ r.op = "current_week" /\ r.pc = "done" /\ r.status = 200
             /\ r.user = 2
             /\ \E w \in r.pre.weeks :
                   w.year = r.year /\ w.week_number = r.wk /\ w.user_id = 1
    /\ \E w \in db.weeks : w.user_id = 1 /\ w.notes = 1 /\ w.year = 2025
    /\ Cardinality(db.weeks) = 1

\* The cache table and the reference column of the slot rows of a request.
CacheTable(op) == IF op \in {"add_movie", "remove_movie"} THEN "movies" ELSE "albums"

SlotRef(op, x) == IF op \in {"add_movie", "remove_movie"} THEN x.movie_id ELSE x.album_id

KeyOf(op, c) == IF op \in {"add_movie", "remove_movie"} THEN c.tmdb_id ELSE c.musicbrainz_id

\* The slot rows of the request's kind that reference a cache row for its key.
SlotsOfKey(tables, r) ==
    {x \in tables[SlotTable(r.op)] :
        \E c \in tables[CacheTable(r.op)] :
           c.id = SlotRef(r.op, x) /\ KeyOf(r.op, c) = r.key}

\* An add whose entity is cached and whose checks pass succeeds, however
\* many slots hold the entity already; it stores one more slot row that
\* references the one cache row, and no second cache row.
AddShares(s) ==
    LET r == req[s]
    IN (AddRejection(r) = 0 /\ PreCached(r)) =>
          /\ req'[s].status = 201 /\ req'[s].calls = 0
          /\ db'[CacheTable(r.op)] = r.pre[CacheTable(r.op)]
          /\ Cardinality(SlotsOfKey(db', r)) = Cardinality(SlotsOfKey(r.pre, r)) + 1
          /\ SlotsOfKey(r.pre, r) \subseteq SlotsOfKey(db', r)

\* A removal that succeeds takes away its own slot row only.
RemoveLeavesOthers(s) ==
    LET r == req[s]
    IN req'[s].status = 204 =>
          /\ db'[SlotTable(r.op)] = r.pre[SlotTable(r.op)] \ PreSlot(r)
          /\ Cardinality(PreSlot(r)) = 1
          /\ db'[CacheTable(r.op)] = r.pre[CacheTable(r.op)]

SharedStep ==
    /\ \A s \in Slots :
          (InFlight(s) /\ req'[s].pc = "done") =>
              /\ req[s].op \in AddOps => AddShares(s)
              /\ req[s].op \in RemoveOps => RemoveLeavesOthers(s)
    /\ \A c, d \in db'.movies : c.tmdb_id = d.tmdb_id => c = d
    /\ \A c, d \in db'.albums : c.musicbrainz_id = d.musicbrainz_id => c = d

\* C37 (SpecShared). addSlot never rejects a key because the entity is
\* already selected: the same film or release can hold both positions of a
\* week and slots of several weeks, all those slots reference the single
\* cache row of the key, and removing one of them leaves the others and the
\* cache row in place.
SameEntityManySlots == [][SharedStep]_vars

\* Film 550 held both positions of week 1 and a position of week 2 through
\* one cache row, and one of the three slots was then removed: the other
\* two and the cache row are still there.
SameEntityManySlotsWitness ==
    /\ \E s \in Slots :
          LET r == req[s]
          IN /\ r.op = "remove_movie" /\ r.pc = "done" /\ r.status = 204
             /\ Cardinality(r.pre.week_movies) = 3
             /\ {x.week_id : x \in r.pre.week_movies} = {1, 2}
             /\ \A x \in r.pre.week_movies :
                   \E m \in r.pre.movies : m.id = x.movie_id /\ m.tmdb_id = 550
    /\ Cardinality(db.week_movies) = 2
    /\ Cardinality(db.movies) = 1
    /\ \A x \in db.week_movies : \E m \in db.movies : m.id = x.movie_id

\* C38 (SpecStamps). For every week, updated_at is never earlier than
\* created_at and never decreases from one committed state to the next,
\* also when add, remove and update requests on the week interleave.
UpdatedAtMonotone ==
    [][/\ \A v \in db'.weeks : v.updated_at >= v.created_at
       /\ \A w \in db.weeks, v \in db'.weeks :
             v.id = w.id => v.updated_at >= w.updated_at]_vars

====
